---- MODULE Spec2Model ----
(***************************************************************************)
(* State-machine model of the tiled fixed-point CNN accelerator:           *)
(*   - cnn_accelerator_top  (hw/hls/src/cnn_accel.cpp)                      *)
(*   - conv2d_hw            (hw/hls/src/conv_layer.cpp)                     *)
(* Fixed-point values are modelled by their raw two's-complement integers: *)
(* data_t / weight_t are Q8.8 in 16 bits, acc_t is Q16.16 in 32 bits.      *)
(***************************************************************************)
EXTENDS Integers, Sequences, FiniteSets, TLC

(***************************************************************************)
(* Bounds of the model (not program constants).                            *)
(***************************************************************************)
MaxDim == 3
MaxSeed == 2
MaxRuns == 2

(***************************************************************************)
(* Program constants.                                                      *)
(***************************************************************************)
TILE_H == 14
TILE_W == 14
TILE_CH == 32
INPUT_TILE_SIZE == TILE_CH * (TILE_H + 2) * (TILE_W + 2)
OUTPUT_TILE_SIZE == TILE_CH * TILE_H * TILE_W
WEIGHT_BUF_SIZE == TILE_CH * TILE_CH * 9
PARALLEL_OUT_CH == 8
PARALLEL_IN_CH == 8
MAX_CHANNELS == 512
MAX_KERNEL_SIZE == 3

(***************************************************************************)
(* Fixed-point numeric model (ap_fixed<W,I,AP_RND,AP_SAT>).                *)
(***************************************************************************)
DATA_MAX == 32767
DATA_MIN == -32768
ACC_MAX == 2147483647
ACC_MIN == (-2147483647) - 1
DATA_FRAC == 256
ONE == 256

Min2(a, b) == IF a < b THEN a ELSE b
Max2(a, b) == IF a > b THEN a ELSE b

\* C integer division (truncation toward zero), divisor > 0.
CDiv(a, b) == IF a >= 0 THEN a \div b ELSE -((-a) \div b)

\* acc_t = acc_t + acc_t : the exact 33-bit sum is assigned back with AP_SAT.
AddOverflows(a, b) == \/ (b > 0 /\ a > ACC_MAX - b)
                      \/ (b < 0 /\ a < ACC_MIN - b)
SatAdd(a, b) == IF b > 0 /\ a > ACC_MAX - b THEN ACC_MAX
                ELSE IF b < 0 /\ a < ACC_MIN - b THEN ACC_MIN
                ELSE a + b

\* data_t * weight_t : exact Q16.16 product (fits 32 bits).
Mul(a, w) == a * w

\* mac_unit / "sum += input * weight": state is <<acc, overflowed>>.
Mac(st, a, w) == <<SatAdd(st[1], Mul(a, w)), st[2] \/ AddOverflows(st[1], Mul(a, w))>>

\* variant: narrowing that keeps the low 16 bits instead of saturating
SatData_Wrap(r) == ((r + 32768) % 65536) - 32768
\* Saturation of a narrowed value to the 16-bit range.
SatData(r) == IF r > DATA_MAX THEN DATA_MAX ELSE IF r < DATA_MIN THEN DATA_MIN ELSE r

\* data_t(acc_t): drop 8 fraction bits with AP_RND (add half, floor), AP_SAT.
RoundQ8(w) == (w \div DATA_FRAC) + (IF (w % DATA_FRAC) * 2 >= DATA_FRAC THEN 1 ELSE 0)
Narrow(w) == SatData(RoundQ8(w))

\* acc_t >> 3 : arithmetic shift of the raw bits.
Shr3(w) == w \div 8

\* acc_t bn_out = acc * scale + shift : exact 49-bit value (24 fraction
\* bits), then AP_RND to 16 fraction bits and AP_SAT to 32 bits.  Computed
\* in 16-bit limbs so that no intermediate leaves 32 bits.
BnOut(acc, scale, shift) ==
    LET ah == acc \div 65536
        al == acc % 65536
        P  == ah * scale
        Q  == ((al * scale) \div DATA_FRAC)
              + (IF ((al * scale) % DATA_FRAC) * 2 >= DATA_FRAC THEN 1 ELSE 0)
        T  == Q + shift * DATA_FRAC
        Ph == P + (T \div DATA_FRAC)
        t  == T % DATA_FRAC
    IN  IF Ph >= 8388608 THEN ACC_MAX
        ELSE IF Ph < -8388608 THEN ACC_MIN
        ELSE Ph * DATA_FRAC + t

\* Fused activation of WRITE_OUTPUT.
Activate(lt, bn) == IF lt # 2
                    THEN (IF bn > 0 THEN Narrow(bn) ELSE Narrow(Shr3(bn)))
                    ELSE Narrow(bn)

(***************************************************************************)
(* State of cnn_accelerator_top.                                           *)
(***************************************************************************)
VARIABLES
    cfg,          \* the eight scalar arguments of the call (layer configuration)
    input_fm,     \* DDR: input feature map
    output_fm,    \* DDR: output feature map
    weights,      \* DDR: convolution weights
    bn_scale,     \* DDR: per-output-channel scale
    bn_shift,     \* DDR: per-output-channel shift
    status,       \* *status register
    input_tile,   \* static on-chip buffers
    weight_tile,
    acc_tile,
    pc,           \* position in cnn_accelerator_top
    oc_t, oh_t, ow_t, ic_t,   \* tile loop counters
    pool_c, pool_i,           \* POOL_LOOP position (channel, window number)
    obs           \* observation record (history of the run, not program state)

topvars == <<cfg, input_fm, output_fm, weights, bn_scale, bn_shift, status,
             input_tile, weight_tile, acc_tile, pc, oc_t, oh_t, ow_t, ic_t,
             pool_c, pool_i, obs>>

(***************************************************************************)
(* State of conv2d_hw.                                                     *)
(***************************************************************************)
VARIABLES
    ccfg,         \* arguments in_ch, in_h, in_w, out_ch, kernel, stride, pad
    input,        \* argument arrays
    output,
    cweights,
    weight_buf,   \* static weight_buf[PARALLEL_OUT_CH][PARALLEL_IN_CH][3][3]
    acc_buf,      \* static acc_buf[PARALLEL_OUT_CH]
    cpc,          \* position in conv2d_hw
    oc_tile, ic_tile,   \* OC_TILE / IC_TILE loop variables
    c_oh, c_ow,         \* ROW_LOOP / COL_LOOP variables
    stack_junk,   \* indeterminate content of never-assigned local_window entries
    cobs          \* observation record of the conv2d_hw call

convvars == <<ccfg, input, output, cweights, weight_buf, acc_buf, cpc,
              oc_tile, ic_tile, c_oh, c_ow, stack_junk, cobs>>

(***************************************************************************)
(* State of a call of one of the standalone operators of activation.cpp    *)
(* and pooling.cpp, and of the fused normalization+activation datapath.    *)
(***************************************************************************)
VARIABLES
    op,           \* the operator called ("none" when no operator runs)
    oarg,         \* its scalar arguments
    odata,        \* its input array (data / input)
    oscale,       \* scale[] and shift[] arrays of batchnorm_relu_hw
    oshift,
    oresult,      \* the returned value or the output array
    opc,          \* "O_CALL" before the body runs, "O_RET" after it
    oobs          \* observation record of the call

opvars == <<op, oarg, odata, oscale, oshift, oresult, opc, oobs>>

\* no standalone operator is executing
OpsIdle ==
    /\ op = "none" /\ oarg = << >> /\ odata = << >> /\ oscale = << >>
    /\ oshift = << >> /\ oresult = << >> /\ opc = "O_IDLE"
    /\ oobs = [rd_bad |-> FALSE, sum_ovf |-> FALSE, data_in |-> << >>]

(***************************************************************************)
(* State of the ARM driver (cnn_driver.c) and of the AXI-Lite block-level  *)
(* control register of the accelerator.                                    *)
(***************************************************************************)
VARIABLES
    dpc,          \* position in cnn_accel_run_layer
    reg_cfg,      \* layer configuration registers written by the driver
    ap_start,     \* AP_CTRL bit 0
    ap_done,      \* AP_CTRL bit 1 (latched, cleared by a read)
    ap_idle,      \* AP_CTRL bit 2
    dobs          \* observation record of the driver

drvvars == <<dpc, reg_cfg, ap_start, ap_done, ap_idle, dobs>>

\* the driver is not executing
DrvIdle ==
    /\ dpc = "D_NONE" /\ reg_cfg = << >>
    /\ ap_start = FALSE /\ ap_done = FALSE /\ ap_idle = TRUE
    /\ dobs = << >>

\* ---- contents of bulk memory, drawn from a bounded family of patterns ----
InVal(seed, i) ==
    IF seed = 0 THEN (((i * 37 + 11) % 61) - 30) * 8
    ELSE IF seed = 1 THEN DATA_MAX
    ELSE IF seed = 2 THEN DATA_MIN
    ELSE (((i * (seed + 5)) % 97) - 48) * 64
WVal(seed, i) ==
    IF seed = 0 THEN (((i * 11 + 3) % 17) - 8) * 32
    ELSE IF seed = 1 THEN DATA_MAX
    ELSE IF seed = 2 THEN (IF i % 2 = 0 THEN DATA_MAX ELSE DATA_MIN)
    ELSE (((i * (seed + 2)) % 23) - 11) * 48
ScaleVal(seed, c) ==
    IF seed = 0 THEN ONE + 64 * c
    ELSE IF seed = 1 THEN DATA_MAX
    ELSE IF seed = 2 THEN DATA_MAX
    ELSE ONE - 96 * c
ShiftVal(seed, c) ==
    IF seed = 0 THEN 32 * c - 16
    ELSE IF seed = 1 THEN DATA_MAX
    ELSE IF seed = 2 THEN DATA_MIN
    ELSE 8 - 40 * c

\* ---- layer configurations explored ----
LayerCfg(lt, ic, oc, h, w, k, s, p) ==
    [layer_type |-> lt, in_channels |-> ic, out_channels |-> oc,
     in_height |-> h, in_width |-> w, kernel_size |-> k, stride |-> s,
     padding |-> p]

\* every small configuration, all kernel/stride/padding/layer kinds
SmallCfgs ==
    { LayerCfg(lt, ic, oc, h, w, k, s, p) :
        lt \in 0..2, ic \in 1..2, oc \in 1..2, h \in 1..MaxDim, w \in 1..MaxDim,
        k \in {1, MAX_KERNEL_SIZE}, s \in 1..2, p \in 0..1 }

\* configurations that cross the tile limits (TILE_CH, TILE_H, TILE_W)
TiledCfgs ==
    { LayerCfg(0, TILE_CH + 1, TILE_CH + 1, TILE_H + 1, 1, 1, 1, 0),
      LayerCfg(1, TILE_CH + 1, 1, 3, 3, 3, 1, 1),
      LayerCfg(2, 1, 1, TILE_H + 1, TILE_W + 1, 1, 1, 0),
      LayerCfg(1, 2, 1, TILE_H + 2, TILE_W + 3, 3, 1, 1),
      LayerCfg(0, TILE_CH + 2, 1, 2 * TILE_H + 1, 9, 3, 2, 0) }

\* ---- geometry computed at entry (cnn_accel.cpp 86-97) ----
out_height == CDiv(cfg.in_height + 2 * cfg.padding - cfg.kernel_size, cfg.stride) + 1
out_width == CDiv(cfg.in_width + 2 * cfg.padding - cfg.kernel_size, cfg.stride) + 1
oc_tiles == CDiv(cfg.out_channels + TILE_CH - 1, TILE_CH)
ic_tiles == CDiv(cfg.in_channels + TILE_CH - 1, TILE_CH)
oh_tiles == CDiv(out_height + TILE_H - 1, TILE_H)
ow_tiles == CDiv(out_width + TILE_W - 1, TILE_W)

\* sizes of the bulk-memory tensors
InSize == cfg.in_channels * cfg.in_height * cfg.in_width
OutSize == IF out_height > 0 /\ out_width > 0
           THEN cfg.out_channels * out_height * out_width ELSE 0
KK == cfg.kernel_size * cfg.kernel_size

\* ---- bounds of the current tile (clipped at the tensor edge) ----
oc_start == oc_t * TILE_CH
oc_end == IF oc_start + TILE_CH > cfg.out_channels THEN cfg.out_channels ELSE oc_start + TILE_CH
oc_count == oc_end - oc_start
oh_start == oh_t * TILE_H
\* variant: last row tile not clipped at the tensor edge
oh_end_Unclipped == oh_start + TILE_H
oh_end == IF oh_start + TILE_H > out_height THEN out_height ELSE oh_start + TILE_H
ow_start == ow_t * TILE_W
ow_end == IF ow_start + TILE_W > out_width THEN out_width ELSE ow_start + TILE_W
tile_oh == oh_end - oh_start
tile_ow == ow_end - ow_start
tile_size == oc_count * tile_oh * tile_ow
ic_start == ic_t * TILE_CH
ic_end == IF ic_start + TILE_CH > cfg.in_channels THEN cfg.in_channels ELSE ic_start + TILE_CH
ic_count == ic_end - ic_start

\* halo-extended input window of the tile
ih_start == oh_start * cfg.stride - cfg.padding
ih_end == (oh_end - 1) * cfg.stride + cfg.kernel_size - cfg.padding
iw_start == ow_start * cfg.stride - cfg.padding
iw_end == (ow_end - 1) * cfg.stride + cfg.kernel_size - cfg.padding
tile_ih == ih_end - ih_start
tile_iw == iw_end - iw_start
in_tile_len == ic_count * tile_ih * tile_iw
w_tile_len == oc_count * ic_count * KK

\* ---- static buffers: written prefix as a function, the rest still zero ----
EmptyBuf == [i \in {} |-> 0]
BufLen(buf) == Cardinality(DOMAIN buf)
RdBuf(buf, i) == IF i \in DOMAIN buf THEN buf[i] ELSE 0

\* ---- LOAD_INPUT (cnn_accel.cpp 141-165) ----
InBounds(ih, iw) == ih >= 0 /\ ih < cfg.in_height /\ iw >= 0 /\ iw < cfg.in_width
DdrIdx(ic, ih, iw) == ic * cfg.in_height * cfg.in_width + ih * cfg.in_width + iw
\* value the stager stores at tile_idx = t (t-th iteration of the ic/ih/iw nest)
StagedVal(t) ==
    LET per == tile_ih * tile_iw
        ic == ic_start + (t \div per)
        ih == ih_start + ((t % per) \div tile_iw)
        iw == iw_start + (t % tile_iw)
    IN  IF InBounds(ih, iw) THEN RdBuf(input_fm, DdrIdx(ic, ih, iw)) ELSE 0
\* some in-bounds iteration of the stager reads input_fm outside the tensor
StagerReadsOutside ==
    \E t \in 0..(in_tile_len - 1) :
        LET per == tile_ih * tile_iw
            ic == ic_start + (t \div per)
            ih == ih_start + ((t % per) \div tile_iw)
            iw == iw_start + (t % tile_iw)
        IN  InBounds(ih, iw) /\ DdrIdx(ic, ih, iw) \notin 0..(InSize - 1)

\* A store past the end of input_tile is undefined behaviour.  Two outcomes
\* of a build: the store lands in the memory that follows the array and is
\* read back from there ("adjacent"), or the address is truncated to the
\* width of the on-chip memory and wraps ("wrap").
OobModes == {"adjacent", "wrap"}
\* last iteration t < n that stores to (wrapped) address j
LastWriter(j, n) == j + ((n - 1 - j) \div INPUT_TILE_SIZE) * INPUT_TILE_SIZE
InputTileAfterLoad(mode) ==
    LET n == in_tile_len
        old == BufLen(input_tile)
    IN  IF n <= INPUT_TILE_SIZE \/ mode = "adjacent"
        THEN [j \in 0..(Max2(n, old) - 1) |->
                 IF j < n THEN StagedVal(j) ELSE input_tile[j]]
        ELSE [j \in 0..(INPUT_TILE_SIZE - 1) |-> StagedVal(LastWriter(j, n))]
\* read of input_tile[i] by COMPUTE_TILE
RdInput(i) == IF i \in DOMAIN input_tile THEN input_tile[i]
              ELSE IF i >= INPUT_TILE_SIZE THEN RdBuf(input_tile, i % INPUT_TILE_SIZE)
              ELSE 0

\* ---- LOAD_WEIGHTS (cnn_accel.cpp 167-186) ----
WDdrIdx(oc, ic, r) == oc * cfg.in_channels * KK + ic * KK + r
WeightTileAfterLoad ==
    LET m == w_tile_len
        old == BufLen(weight_tile)
    IN  [j \in 0..(Max2(m, old) - 1) |->
            IF j < m
            THEN weights[WDdrIdx(oc_start + (j \div (ic_count * KK)),
                                 ic_start + ((j % (ic_count * KK)) \div KK),
                                 j % KK)]
            ELSE weight_tile[j]]

\* ---- COMPUTE_TILE (cnn_accel.cpp 188-224) ----
InIdx(ic, oh, ow, kh, kw) ==
    ic * tile_ih * tile_iw + (oh * cfg.stride + kh) * tile_iw + (ow * cfg.stride + kw)
WIdx(oc, ic, kh, kw) == oc * ic_count * KK + ic * KK + kh * cfg.kernel_size + kw
\* f-th term of the ic/kh/kw nest for local output (oc, oh, ow)
MacTerm(st, oc, oh, ow, f) ==
    LET ic == f \div KK
        kh == (f % KK) \div cfg.kernel_size
        kw == f % cfg.kernel_size
    IN  Mac(st, RdInput(InIdx(ic, oh, ow, kh, kw)), RdBuf(weight_tile, WIdx(oc, ic, kh, kw)))
\* terms lo..hi-1 applied in order
RECURSIVE MacRange(_, _, _, _, _, _)
MacRange(st, oc, oh, ow, lo, hi) ==
    IF hi <= lo THEN st
    ELSE IF hi - lo = 1 THEN MacTerm(st, oc, oh, ow, lo)
    ELSE LET mid == (lo + hi) \div 2
             left == MacRange(st, oc, oh, ow, lo, mid)
         IN  IF left[1] >= ACC_MIN THEN MacRange(left, oc, oh, ow, mid, hi) ELSE left
\* the accumulator entry idx after this input-channel tile
SumStart(idx) == RdBuf(acc_tile, idx)
MacResult(idx) ==
    LET per == tile_oh * tile_ow
    IN  MacRange(<<SumStart(idx), FALSE>>, idx \div per, (idx % per) \div tile_ow,
                 idx % tile_ow, 0, ic_count * KK)

\* ---- WRITE_OUTPUT (cnn_accel.cpp 227-265) ----
ScaleOf(oc) == IF cfg.layer_type # 2 THEN bn_scale[oc_start + oc] ELSE ONE
ShiftOf(oc) == IF cfg.layer_type # 2 THEN bn_shift[oc_start + oc] ELSE 0
\* wide value of local accumulator entry idx after BatchNorm
BnOfIdx(idx) ==
    LET oc == idx \div (tile_oh * tile_ow)
    IN  BnOut(RdBuf(acc_tile, idx), ScaleOf(oc), ShiftOf(oc))
ResultOfIdx(idx) == Activate(cfg.layer_type, BnOfIdx(idx))
\* the wide value that WRITE_OUTPUT hands to the narrowing conversion
WideOfIdx(idx) == IF cfg.layer_type # 2 /\ BnOfIdx(idx) <= 0
                  THEN Shr3(BnOfIdx(idx)) ELSE BnOfIdx(idx)
\* variant: the output address computed with the pitch of a tile
OutIdx_TilePitch(idx) ==
    LET per == tile_oh * tile_ow
        oc == idx \div per
        oh == (idx % per) \div tile_ow
        ow == idx % tile_ow
    IN  (oc_start + oc) * TILE_H * TILE_W + (oh_start + oh) * TILE_W + (ow_start + ow)
\* out_idx of local entry idx of the tile
OutIdx(idx) ==
    LET per == tile_oh * tile_ow
        oc == idx \div per
        oh == (idx % per) \div tile_ow
        ow == idx % tile_ow
    IN  (oc_start + oc) * out_height * out_width + (oh_start + oh) * out_width
        + (ow_start + ow)
\* local entries of the tile that are written to address a, and the last of them
WritersOf(a) == { idx \in 0..(tile_size - 1) : OutIdx(idx) = a }
LastOf(S) == CHOOSE x \in S : \A y \in S : y <= x
OutputAfterWrite ==
    [a \in DOMAIN output_fm |->
        IF WritersOf(a) # {} THEN ResultOfIdx(LastOf(WritersOf(a))) ELSE output_fm[a]]

\* ---- POOL_LOOP (cnn_accel.cpp 270-301) ----
pool_height == CDiv(out_height, 2)
pool_width == CDiv(out_width, 2)
PoolBase(c, ph, pw) == c * out_height * out_width + (ph * 2) * out_width + (pw * 2)
\* variant: the pooled value stored two elements after the window's start
PoolIdx_Ahead(c, ph, pw) == c * out_height * out_width + (ph * 2) * out_width + (pw * 2) + 2
\* pool_idx of the pooled element (c, ph, pw)
PoolIdx(c, ph, pw) == c * pool_height * pool_width + ph * pool_width + pw
\* variant: the comparator tree without its last input
Max4_NoLast(v00, v01, v10, v11) == Max2(Max2(v00, v01), v10)
Max4(v00, v01, v10, v11) == Max2(Max2(v00, v01), Max2(v10, v11))

\* ---- observation record ----
ObsInit ==
    [acc_zeroed |-> 0,       \* INIT_ACC executions for the current output tile
     ic_done |-> 0,          \* input-channel tiles accumulated for the current output tile
     wr_cnt |-> [a \in 0..(OutSize - 1) |-> 0],  \* tile-pass writes per output address
     wr_out |-> FALSE,       \* a tile-pass write outside the output tensor
     max_in_idx |-> -1,      \* largest index used on input_tile
     max_w_idx |-> -1,       \* largest index used on weight_tile
     max_acc_idx |-> -1,     \* largest index used on acc_tile
     ddr_bad |-> FALSE,      \* an input_fm read outside the input tensor
     acc_ovf |-> FALSE,      \* an accumulation left the range of acc_t
     sat_hi |-> FALSE,       \* a wide result above the Q8.8 range was stored
     sat_lo |-> FALSE,       \* a wide result below the Q8.8 range was stored
     tile_out |-> << >>]     \* output_fm as the tile pass left it

\* conv2d_hw is not executing
ConvIdle ==
    /\ ccfg = [in_ch |-> 0, in_h |-> 0, in_w |-> 0, out_ch |-> 0,
               kernel |-> 1, stride |-> 1, pad |-> 0]
    /\ input = EmptyBuf /\ output = EmptyBuf /\ cweights = EmptyBuf
    /\ weight_buf = EmptyBuf /\ acc_buf = EmptyBuf
    /\ cpc = "C_IDLE"
    /\ oc_tile = 0 /\ ic_tile = 0 /\ c_oh = 0 /\ c_ow = 0
    /\ stack_junk = 0
    /\ cobs = [written |-> {}, junk_used |-> FALSE, in_bad |-> FALSE]

(***************************************************************************)
(* Initial state: a call of cnn_accelerator_top is about to execute, the   *)
(* static buffers still hold their zero initialisation.                    *)
(***************************************************************************)
\* the state at the call of cnn_accelerator_top with configuration c and the
\* tensors of pattern seed
EntryOf(c, seed) ==
    /\ cfg = c
    /\ input_fm = [i \in 0..(InSize - 1) |-> InVal(seed, i)]
    /\ weights = [i \in 0..(cfg.out_channels * cfg.in_channels * KK - 1) |-> WVal(seed, i)]
    /\ bn_scale = [ch \in 0..(cfg.out_channels - 1) |-> ScaleVal(seed, ch)]
    /\ bn_shift = [ch \in 0..(cfg.out_channels - 1) |-> ShiftVal(seed, ch)]
    /\ output_fm = [a \in 0..(OutSize - 1) |-> 0]
    /\ status = 0
    /\ input_tile = EmptyBuf
    /\ weight_tile = EmptyBuf
    /\ acc_tile = EmptyBuf
    /\ pc = "ENTRY"
    /\ oc_t = 0 /\ oh_t = 0 /\ ow_t = 0 /\ ic_t = 0
    /\ pool_c = 0 /\ pool_i = 0
    /\ obs = ObsInit
    /\ ConvIdle /\ OpsIdle /\ DrvIdle

Init ==
    \E c \in SmallCfgs \cup TiledCfgs :
        \E seed \in (IF c \in TiledCfgs THEN {0} ELSE 0..MaxSeed) : EntryOf(c, seed)

\* *status = 1 and the tile counts (cnn_accel.cpp 86-97)
Start ==
    /\ UNCHANGED <<convvars, opvars, drvvars>>
    /\ pc = "ENTRY"
    /\ status' = 1
    /\ oc_t' = 0
    /\ pc' = "OC_TILE_LOOP"
    /\ UNCHANGED <<cfg, input_fm, output_fm, weights, bn_scale, bn_shift,
                   input_tile, weight_tile, acc_tile, oh_t, ow_t, ic_t,
                   pool_c, pool_i, obs>>

\* variant: the function returns straight after the tile loops
AfterTileLoops_Return == "RETURN"
\* where control goes when OC_TILE_LOOP has ended: the pooling test
AfterTileLoops == "POOL_CHECK"
\* for (oc_t = 0; oc_t < oc_tiles; oc_t++)
OcTileLoop ==
    /\ UNCHANGED <<convvars, opvars, drvvars>>
    /\ pc = "OC_TILE_LOOP"
    /\ IF oc_t < oc_tiles
       THEN /\ oh_t' = 0
            /\ pc' = "OH_TILE_LOOP"
       ELSE /\ pc' = AfterTileLoops
            /\ UNCHANGED oh_t
    /\ UNCHANGED <<cfg, input_fm, output_fm, weights, bn_scale, bn_shift, status,
                   input_tile, weight_tile, acc_tile, oc_t, ow_t, ic_t,
                   pool_c, pool_i, obs>>

\* for (oh_t = 0; oh_t < oh_tiles; oh_t++)
OhTileLoop ==
    /\ UNCHANGED <<convvars, opvars, drvvars>>
    /\ pc = "OH_TILE_LOOP"
    /\ IF oh_t < oh_tiles
       THEN /\ ow_t' = 0
            /\ pc' = "OW_TILE_LOOP"
            /\ UNCHANGED oc_t
       ELSE /\ oc_t' = oc_t + 1
            /\ pc' = "OC_TILE_LOOP"
            /\ UNCHANGED ow_t
    /\ UNCHANGED <<cfg, input_fm, output_fm, weights, bn_scale, bn_shift, status,
                   input_tile, weight_tile, acc_tile, oh_t, ic_t,
                   pool_c, pool_i, obs>>

\* for (ow_t = 0; ow_t < ow_tiles; ow_t++)
OwTileLoop ==
    /\ UNCHANGED <<convvars, opvars, drvvars>>
    /\ pc = "OW_TILE_LOOP"
    /\ IF ow_t < ow_tiles
       THEN /\ pc' = "INIT_ACC"
            /\ UNCHANGED oh_t
       ELSE /\ oh_t' = oh_t + 1
            /\ pc' = "OH_TILE_LOOP"
    /\ UNCHANGED <<cfg, input_fm, output_fm, weights, bn_scale, bn_shift, status,
                   input_tile, weight_tile, acc_tile, oc_t, ow_t, ic_t,
                   pool_c, pool_i, obs>>

\* INIT_ACC: acc_tile[0 .. tile_size-1] = 0, then ic_t = 0
InitAcc ==
    /\ UNCHANGED <<convvars, opvars, drvvars>>
    /\ pc = "INIT_ACC"
    /\ acc_tile' = [i \in 0..(Max2(tile_size, BufLen(acc_tile)) - 1) |->
                       IF i < tile_size THEN 0 ELSE acc_tile[i]]
    /\ ic_t' = 0
    /\ pc' = "IC_TILE_LOOP"
    /\ obs' = [obs EXCEPT !.acc_zeroed = @ + 1,
                          !.max_acc_idx = Max2(@, tile_size - 1)]
    /\ UNCHANGED <<cfg, input_fm, output_fm, weights, bn_scale, bn_shift, status,
                   input_tile, weight_tile, oc_t, oh_t, ow_t, pool_c, pool_i>>

\* variant: input-channel loop that leaves before its last tile
IcLoopCond_Early == ic_t < ic_tiles - 1
\* for (ic_t = 0; ic_t < ic_tiles; ic_t++)
IcLoopCond == ic_t < ic_tiles
IcTileLoop ==
    /\ UNCHANGED <<convvars, opvars, drvvars>>
    /\ pc = "IC_TILE_LOOP"
    /\ pc' = IF IcLoopCond THEN "LOAD_INPUT" ELSE "WRITE_OUTPUT"
    /\ UNCHANGED <<cfg, input_fm, output_fm, weights, bn_scale, bn_shift, status,
                   input_tile, weight_tile, acc_tile, oc_t, oh_t, ow_t, ic_t,
                   pool_c, pool_i, obs>>

\* LOAD_INPUT: stage the halo-extended window of ic_count channels
LoadInput ==
    /\ UNCHANGED <<convvars, opvars, drvvars>>
    /\ pc = "LOAD_INPUT"
    /\ \E mode \in (IF in_tile_len > INPUT_TILE_SIZE THEN OobModes ELSE {"adjacent"}) :
         input_tile' = InputTileAfterLoad(mode)
    /\ pc' = "LOAD_WEIGHTS"
    /\ obs' = [obs EXCEPT !.max_in_idx = Max2(@, in_tile_len - 1),
                          !.ddr_bad = @ \/ StagerReadsOutside]
    /\ UNCHANGED <<cfg, input_fm, output_fm, weights, bn_scale, bn_shift, status,
                   weight_tile, acc_tile, oc_t, oh_t, ow_t, ic_t, pool_c, pool_i>>

\* LOAD_WEIGHTS: stage the (oc tile, ic tile) block of the weights
LoadWeights ==
    /\ UNCHANGED <<convvars, opvars, drvvars>>
    /\ pc = "LOAD_WEIGHTS"
    /\ weight_tile' = WeightTileAfterLoad
    /\ pc' = "COMPUTE_TILE"
    /\ obs' = [obs EXCEPT !.max_w_idx = Max2(@, w_tile_len - 1)]
    /\ UNCHANGED <<cfg, input_fm, output_fm, weights, bn_scale, bn_shift, status,
                   input_tile, acc_tile, oc_t, oh_t, ow_t, ic_t, pool_c, pool_i>>

\* variant: accumulators initialised inside the input-channel loop
AfterCompute_Rezero == "INIT_ACC"
\* where control goes after COMPUTE_TILE: the ic_t++ of IC_TILE_LOOP
AfterCompute == "IC_TILE_LOOP"
\* COMPUTE_TILE: add this input-channel tile's products to every entry
ComputeTile ==
    /\ UNCHANGED <<convvars, opvars, drvvars>>
    /\ pc = "COMPUTE_TILE"
    /\ LET res == [idx \in 0..(tile_size - 1) |-> MacResult(idx)]
       IN  /\ acc_tile' = [i \in 0..(Max2(tile_size, BufLen(acc_tile)) - 1) |->
                              IF i < tile_size THEN res[i][1] ELSE acc_tile[i]]
           /\ obs' = [obs EXCEPT
                        !.ic_done = @ + 1,
                        !.max_acc_idx = Max2(@, tile_size - 1),
                        !.max_in_idx = Max2(@, InIdx(ic_count - 1, tile_oh - 1, tile_ow - 1,
                                                     cfg.kernel_size - 1, cfg.kernel_size - 1)),
                        !.max_w_idx = Max2(@, WIdx(oc_count - 1, ic_count - 1,
                                                   cfg.kernel_size - 1, cfg.kernel_size - 1)),
                        !.acc_ovf = @ \/ (\E i \in 0..(tile_size - 1) : res[i][2])]
    /\ ic_t' = ic_t + 1
    /\ pc' = AfterCompute
    /\ UNCHANGED <<cfg, input_fm, output_fm, weights, bn_scale, bn_shift, status,
                   input_tile, weight_tile, oc_t, oh_t, ow_t, pool_c, pool_i>>

\* WRITE_OUTPUT: BatchNorm + activation, narrowed, stored to DDR; then ow_t++
WriteOutput ==
    /\ UNCHANGED <<convvars, opvars, drvvars>>
    /\ pc = "WRITE_OUTPUT"
    /\ output_fm' = OutputAfterWrite
    /\ obs' = [obs EXCEPT
                 !.wr_cnt = [a \in DOMAIN @ |-> @[a] + Cardinality(WritersOf(a))],
                 !.wr_out = @ \/ (\E idx \in 0..(tile_size - 1) :
                                      OutIdx(idx) \notin DOMAIN output_fm),
                 !.max_acc_idx = Max2(@, tile_size - 1),
                 !.sat_hi = @ \/ (\E idx \in 0..(tile_size - 1) :
                                      WideOfIdx(idx) > DATA_MAX * DATA_FRAC + (DATA_FRAC - 1)),
                 !.sat_lo = @ \/ (\E idx \in 0..(tile_size - 1) :
                                      WideOfIdx(idx) < DATA_MIN * DATA_FRAC),
                 !.acc_zeroed = 0,
                 !.ic_done = 0]
    /\ ow_t' = ow_t + 1
    /\ pc' = "OW_TILE_LOOP"
    /\ UNCHANGED <<cfg, input_fm, weights, bn_scale, bn_shift, status,
                   input_tile, weight_tile, acc_tile, oc_t, oh_t, ic_t, pool_c, pool_i>>

\* variant: the pooling pass entered for every layer kind
PoolRequested_Always == TRUE
\* if (layer_type == 1)
PoolRequested == cfg.layer_type = 1
PoolCheck ==
    /\ UNCHANGED <<convvars, opvars, drvvars>>
    /\ pc = "POOL_CHECK"
    /\ IF PoolRequested
       THEN /\ pool_c' = 0 /\ pool_i' = 0
            /\ pc' = "POOL_LOOP"
       ELSE /\ pc' = "SET_DONE"
            /\ UNCHANGED <<pool_c, pool_i>>
    /\ obs' = [obs EXCEPT !.tile_out = output_fm]
    /\ UNCHANGED <<cfg, input_fm, output_fm, weights, bn_scale, bn_shift, status,
                   input_tile, weight_tile, acc_tile, oc_t, oh_t, ow_t, ic_t>>

\* one iteration of POOL_LOOP: window pool_i of channel pool_c, in place
PoolStep ==
    /\ UNCHANGED <<convvars, opvars, drvvars>>
    /\ pc = "POOL_LOOP"
    /\ IF pool_c < cfg.out_channels /\ pool_height > 0 /\ pool_width > 0
       THEN LET ph == pool_i \div pool_width
                pw == pool_i % pool_width
                base_idx == PoolBase(pool_c, ph, pw)
                max_val == Max4(output_fm[base_idx], output_fm[base_idx + 1],
                                output_fm[base_idx + out_width],
                                output_fm[base_idx + out_width + 1])
            IN  /\ output_fm' = [output_fm EXCEPT ![PoolIdx(pool_c, ph, pw)] = max_val]
                /\ IF pool_i + 1 < pool_height * pool_width
                   THEN pool_i' = pool_i + 1 /\ UNCHANGED pool_c
                   ELSE pool_i' = 0 /\ pool_c' = pool_c + 1
                /\ UNCHANGED pc
       ELSE /\ pc' = "SET_DONE"
            /\ UNCHANGED <<output_fm, pool_c, pool_i>>
    /\ UNCHANGED <<cfg, input_fm, weights, bn_scale, bn_shift, status,
                   input_tile, weight_tile, acc_tile, oc_t, oh_t, ow_t, ic_t, obs>>

\* *status = 0 and return
SetDone ==
    /\ UNCHANGED <<convvars, opvars, drvvars>>
    /\ pc = "SET_DONE"
    /\ status' = 0
    /\ pc' = "RETURN"
    /\ UNCHANGED <<cfg, input_fm, output_fm, weights, bn_scale, bn_shift,
                   input_tile, weight_tile, acc_tile, oc_t, oh_t, ow_t, ic_t,
                   pool_c, pool_i, obs>>

Next ==
    \/ Start
    \/ OcTileLoop
    \/ OhTileLoop
    \/ OwTileLoop
    \/ InitAcc
    \/ IcTileLoop
    \/ LoadInput
    \/ LoadWeights
    \/ ComputeTile
    \/ WriteOutput
    \/ PoolCheck
    \/ PoolStep
    \/ SetDone

vars == <<topvars, convvars, opvars, drvvars>>
Spec == Init /\ [][Next]_vars

(***************************************************************************)
(* Reference: direct (non-tiled) convolution in the accumulator type, with *)
(* out-of-bounds inputs taken as zero.                                     *)
(***************************************************************************)
RefInput(ic, ih, iw) ==
    IF 0 <= ih /\ ih < cfg.in_height /\ 0 <= iw /\ iw < cfg.in_width
    THEN input_fm[ic * cfg.in_height * cfg.in_width + ih * cfg.in_width + iw]
    ELSE 0
RefWeight(oc, ic, kh, kw) ==
    weights[oc * cfg.in_channels * KK + ic * KK + kh * cfg.kernel_size + kw]
RefTerm(st, oc, oh, ow, f) ==
    LET ic == f \div KK
        kh == (f % KK) \div cfg.kernel_size
        kw == f % cfg.kernel_size
    IN  Mac(st, RefInput(ic, oh * cfg.stride + kh - cfg.padding,
                         ow * cfg.stride + kw - cfg.padding),
            RefWeight(oc, ic, kh, kw))
RECURSIVE RefRange(_, _, _, _, _, _)
RefRange(st, oc, oh, ow, lo, hi) ==
    IF hi <= lo THEN st
    ELSE IF hi - lo = 1 THEN RefTerm(st, oc, oh, ow, lo)
    ELSE LET mid == (lo + hi) \div 2
             left == RefRange(st, oc, oh, ow, lo, mid)
         IN  IF left[1] >= ACC_MIN THEN RefRange(left, oc, oh, ow, mid, hi) ELSE left
\* accumulated value of output element (oc, oh, ow) over input channels 0..n-1
DirectAcc(oc, oh, ow, n) == RefRange(<<0, FALSE>>, oc, oh, ow, 0, n * KK)[1]
\* absolute output coordinates of local accumulator entry idx
AbsOc(idx) == oc_start + (idx \div (tile_oh * tile_ow))
AbsOh(idx) == oh_start + ((idx % (tile_oh * tile_ow)) \div tile_ow)
AbsOw(idx) == ow_start + (idx % tile_ow)

\* C1: tiling invariance -- when all input-channel tiles of an output tile
\* have been accumulated (control is at WRITE_OUTPUT), every accumulator
\* entry equals the direct, non-tiled sum over all input channels and kernel
\* positions, for every kernel/stride/padding and every split into tiles.
C1_TilingInvariance ==
    pc = "WRITE_OUTPUT" =>
        \A idx \in 0..(tile_size - 1) :
            RdBuf(acc_tile, idx)
                = DirectAcc(AbsOc(idx), AbsOh(idx), AbsOw(idx), cfg.in_channels)

\* positions of the accumulation phase of one output tile
InIcLoop == pc \in {"IC_TILE_LOOP", "LOAD_INPUT", "LOAD_WEIGHTS", "COMPUTE_TILE"}

\* C3: the accumulator entries of an output tile are zeroed exactly once,
\* before the first input-channel tile, and are not zeroed again between two
\* input-channel tiles of the same output tile.
C3_ZeroedOnce ==
    /\ [](/\ (pc = "INIT_ACC" => obs.acc_zeroed = 0 /\ obs.ic_done = 0)
          /\ (InIcLoop \/ pc = "WRITE_OUTPUT" => obs.acc_zeroed = 1)
          /\ (pc = "IC_TILE_LOOP" /\ obs.ic_done = 0 =>
                 \A i \in 0..(tile_size - 1) : RdBuf(acc_tile, i) = 0))
    /\ [][/\ (obs'.acc_zeroed > obs.acc_zeroed => pc = "INIT_ACC" /\ obs.ic_done = 0)
          /\ (InIcLoop /\ pc # "COMPUTE_TILE" => acc_tile' = acc_tile)]_vars
C3_Witness ==
    /\ pc = "IC_TILE_LOOP" /\ obs.ic_done = 1 /\ ic_tiles = 2
    /\ obs.acc_zeroed = 1
    /\ \E i \in 0..(tile_size - 1) : RdBuf(acc_tile, i) # 0

\* C4: the loops nest output-channel tile, spatial tile, input-channel tile;
\* normalization/activation reads the accumulator and output_fm is written
\* for a tile only after all ic_tiles input-channel tiles have been applied.
C4_AccumulateBeforeWrite ==
    /\ [](pc = "WRITE_OUTPUT" => obs.ic_done = ic_tiles /\ ic_t = ic_tiles)
    /\ [][/\ (output_fm' # output_fm /\ pc # "POOL_LOOP" =>
                 pc = "WRITE_OUTPUT" /\ obs.ic_done = ic_tiles)
          /\ (<<oc_t, oh_t, ow_t>>' # <<oc_t, oh_t, ow_t>> =>
                 obs.ic_done \in {0, ic_tiles})
          /\ (oc_t' # oc_t => pc = "OH_TILE_LOOP" /\ oh_t >= oh_tiles)
          /\ (oh_t' # oh_t /\ pc # "OC_TILE_LOOP" =>
                 pc = "OW_TILE_LOOP" /\ ow_t >= ow_tiles)]_vars
C4_Witness ==
    /\ pc = "OW_TILE_LOOP" /\ ow_t = 1 /\ ic_tiles = 2 /\ ic_t = 2
    /\ \E a \in DOMAIN obs.wr_cnt : obs.wr_cnt[a] = 1

\* C5: the tile pass writes every address oc*out_h*out_w + oh*out_w + ow of
\* the output tensor exactly once and no address outside it, also when a
\* dimension is not a multiple of the tile size.
AfterTilePass == pc \in {"POOL_CHECK", "POOL_LOOP", "SET_DONE", "RETURN"}
C5_EachAddressOnce ==
    /\ DOMAIN obs.wr_cnt = 0..(cfg.out_channels * Max2(out_height, 0) * Max2(out_width, 0) - 1)
    /\ ~obs.wr_out
    /\ \A a \in DOMAIN obs.wr_cnt : obs.wr_cnt[a] <= 1
    /\ AfterTilePass => \A a \in DOMAIN obs.wr_cnt : obs.wr_cnt[a] = 1
C5_Witness ==
    /\ AfterTilePass
    /\ oh_tiles = 2 /\ ow_tiles = 2
    /\ out_height % TILE_H # 0 /\ out_width % TILE_W # 0
    /\ \A a \in DOMAIN obs.wr_cnt : obs.wr_cnt[a] = 1

\* C6: a configuration whose computed out_h or out_w is <= 0 is rejected
\* before the run starts: status is never set to 1 and nothing is written.
C6_RejectedBeforeRun ==
    (out_height <= 0 \/ out_width <= 0) =>
        /\ status # 1
        /\ ~obs.wr_out
        /\ \A a \in DOMAIN obs.wr_cnt : obs.wr_cnt[a] = 0

\* C7: every index used on input_tile is below INPUT_TILE_SIZE, on
\* weight_tile below WEIGHT_BUF_SIZE and on acc_tile below OUTPUT_TILE_SIZE.
C7_BuffersWithinCapacity ==
    /\ obs.max_in_idx < INPUT_TILE_SIZE
    /\ obs.max_w_idx < WEIGHT_BUF_SIZE
    /\ obs.max_acc_idx < OUTPUT_TILE_SIZE

\* C8 (accelerator part): once the input tile is staged, the value the MAC
\* loop reads for local (ic, oh, ow, kh, kw) is input_fm at
\* (ih, iw) = (oh*stride + kh - padding, ow*stride + kw - padding) when that
\* lies inside the input and zero otherwise; no read of input_fm is outside
\* the tensor.
C8_HaloTop ==
    /\ ~obs.ddr_bad
    /\ pc \in {"LOAD_WEIGHTS", "COMPUTE_TILE"} =>
         \A ic \in 0..(ic_count - 1), oh \in 0..(tile_oh - 1), ow \in 0..(tile_ow - 1),
            kh \in 0..(cfg.kernel_size - 1), kw \in 0..(cfg.kernel_size - 1) :
             RdInput(InIdx(ic, oh, ow, kh, kw))
                 = RefInput(ic_start + ic,
                            (oh_start + oh) * cfg.stride + kh - cfg.padding,
                            (ow_start + ow) * cfg.stride + kw - cfg.padding)

\* C9: the accumulator never overflows or saturates while the products of
\* narrow values are summed.
C9_AccNeverSaturates == ~obs.acc_ovf

\* C10: every value stored by the fused normalization+activation step is the
\* wide value narrowed with saturation: above the Q8.8 range it is stored as
\* the Q8.8 maximum, below it as the Q8.8 minimum, otherwise rounded to the
\* nearest Q8.8 value; the stored 16-bit value never wraps.
C10_NarrowSaturates ==
    [][pc = "WRITE_OUTPUT" =>
         \A idx \in 0..(tile_size - 1) :
            LET wide == WideOfIdx(idx)
                stored == output_fm'[OutIdx(idx)]
            IN  /\ stored \in DATA_MIN..DATA_MAX
                /\ (wide \div DATA_FRAC >= DATA_MAX => stored = DATA_MAX)
                /\ (wide \div DATA_FRAC < DATA_MIN => stored = DATA_MIN)
                /\ (wide \div DATA_FRAC \in DATA_MIN..(DATA_MAX - 1) =>
                       stored - (wide \div DATA_FRAC) \in 0..1)]_vars
C10_Witness == obs.sat_hi /\ obs.sat_lo /\ pc = "RETURN"

(***************************************************************************)
(* conv2d_hw (conv_layer.cpp 113-235).                                     *)
(***************************************************************************)
\* cnn_accelerator_top is not executing
TopIdle ==
    /\ cfg = LayerCfg(0, 0, 0, 0, 0, 1, 1, 0)
    /\ input_fm = EmptyBuf /\ output_fm = EmptyBuf /\ weights = EmptyBuf
    /\ bn_scale = EmptyBuf /\ bn_shift = EmptyBuf
    /\ status = 0
    /\ input_tile = EmptyBuf /\ weight_tile = EmptyBuf /\ acc_tile = EmptyBuf
    /\ pc = "IDLE"
    /\ oc_t = 0 /\ oh_t = 0 /\ ow_t = 0 /\ ic_t = 0
    /\ pool_c = 0 /\ pool_i = 0
    /\ obs = ObsInit

ConvCfgs ==
    [in_ch : {2, PARALLEL_IN_CH + 1}, out_ch : {1, PARALLEL_OUT_CH + 1},
     in_h : 1..MaxDim, in_w : 1..MaxDim,
     kernel : {1, MAX_KERNEL_SIZE}, stride : 1..2, pad : 0..1]
\* values an uninitialised local_window entry may hold
JunkVals == {0, ONE}

out_h == CDiv(ccfg.in_h + 2 * ccfg.pad - ccfg.kernel, ccfg.stride) + 1
out_w == CDiv(ccfg.in_w + 2 * ccfg.pad - ccfg.kernel, ccfg.stride) + 1
COutSize == IF out_h > 0 /\ out_w > 0 THEN ccfg.out_ch * out_h * out_w ELSE 0
CKK == ccfg.kernel * ccfg.kernel

\* flat position of weight_buf[oc][ic][kh][kw]
WBufIdx(oc, ic, kh, kw) == ((oc * PARALLEL_IN_CH + ic) * 3 + kh) * 3 + kw
\* channels of the current tiles that exist
OcInTile == { oc \in 0..(PARALLEL_OUT_CH - 1) : oc_tile + oc < ccfg.out_ch }
IcInTile == { ic \in 0..(PARALLEL_IN_CH - 1) : ic_tile + ic < ccfg.in_ch }

\* LOAD_WEIGHTS (conv_layer.cpp 152-166)
CWeightIdx(oc, ic, kh, kw) ==
    (oc_tile + oc) * ccfg.in_ch * CKK + (ic_tile + ic) * CKK + kh * ccfg.kernel + kw
WeightBufAfterLoad ==
    [j \in DOMAIN weight_buf |->
        LET oc == j \div (PARALLEL_IN_CH * 9)
            ic == (j \div 9) % PARALLEL_IN_CH
            kh == (j \div 3) % 3
            kw == j % 3
        IN  IF oc \in OcInTile /\ ic \in IcInTile /\ kh < ccfg.kernel /\ kw < ccfg.kernel
            THEN cweights[CWeightIdx(oc, ic, kh, kw)]
            ELSE weight_buf[j]]

\* LOAD_WINDOW (conv_layer.cpp 196-211): local_window[kh][kw] of channel ic
CInBounds(ih, iw) == ih >= 0 /\ ih < ccfg.in_h /\ iw >= 0 /\ iw < ccfg.in_w
CInIdx(ic, ih, iw) == (ic_tile + ic) * ccfg.in_h * ccfg.in_w + ih * ccfg.in_w + iw
WindowAssigned(kh, kw) == kh < ccfg.kernel /\ kw < ccfg.kernel
LocalWindow(ic, oh, ow, kh, kw) ==
    LET ih == oh * ccfg.stride + kh - ccfg.pad
        iw == ow * ccfg.stride + kw - ccfg.pad
    IN  IF WindowAssigned(kh, kw)
        THEN (IF CInBounds(ih, iw) THEN RdBuf(input, CInIdx(ic, ih, iw)) ELSE 0)
        ELSE stack_junk
WindowReadsOutside(oh, ow) ==
    \E ic \in IcInTile, kh \in 0..(ccfg.kernel - 1), kw \in 0..(ccfg.kernel - 1) :
        /\ CInBounds(oh * ccfg.stride + kh - ccfg.pad, ow * ccfg.stride + kw - ccfg.pad)
        /\ CInIdx(ic, oh * ccfg.stride + kh - ccfg.pad, ow * ccfg.stride + kw - ccfg.pad)
              \notin DOMAIN input

\* conv_3x3_kernel (conv_layer.cpp 61-82): nine mac_unit steps from sum = 0
RECURSIVE Conv3x3Upto(_, _, _, _, _)
Conv3x3Upto(oc, ic, oh, ow, n) ==
    IF n = 0 THEN 0
    ELSE LET kh == (n - 1) \div 3
             kw == (n - 1) % 3
         IN  SatAdd(Conv3x3Upto(oc, ic, oh, ow, n - 1),
                    Mul(LocalWindow(ic, oh, ow, kh, kw), weight_buf[WBufIdx(oc, ic, kh, kw)]))
conv_3x3_kernel(oc, ic, oh, ow) == Conv3x3Upto(oc, ic, oh, ow, 9)

\* IC_COMPUTE / OC_MAC: acc_buf[oc] += partial for the first n channels of the tile
RECURSIVE AccUpto(_, _, _, _, _)
AccUpto(start, oc, oh, ow, n) ==
    IF n = 0 THEN start
    ELSE SatAdd(AccUpto(start, oc, oh, ow, n - 1), conv_3x3_kernel(oc, n - 1, oh, ow))

\* "if (ic_tile == 0)" : the accumulators are initialised at every pixel of
\* the first input-channel tile only
AccStart(oc) == IF ic_tile = 0 THEN 0 ELSE acc_buf[oc]
AccBufAfterPixel(oh, ow) ==
    [oc \in DOMAIN acc_buf |->
        IF oc \in OcInTile THEN AccUpto(AccStart(oc), oc, oh, ow, Cardinality(IcInTile))
        ELSE AccStart(oc)]
\* "if (ic_tile + PARALLEL_IN_CH >= in_ch)" : last input-channel tile
LastIcTile == ic_tile + PARALLEL_IN_CH >= ccfg.in_ch
COutIdx(oc, oh, ow) == (oc_tile + oc) * out_h * out_w + oh * out_w + ow

\* tensors of a conv2d_hw call: the seeded patterns, and one with inputs at
\* the Q8.8 maximum and weights that change sign every three entries
ConvPatterns == { <<"seed", sd>> : sd \in 0..MaxSeed } \cup { <<"runs", 0>> }
ConvInVal(pat, i) == IF pat[1] = "runs" THEN DATA_MAX ELSE InVal(pat[2], i)
ConvWVal(pat, i) ==
    IF pat[1] = "runs" THEN (IF (i \div 3) % 2 = 0 THEN DATA_MAX ELSE DATA_MIN)
    ELSE WVal(pat[2], i)

ConvInit ==
    /\ TopIdle /\ OpsIdle /\ DrvIdle
    /\ ccfg \in ConvCfgs
    /\ \E pat \in ConvPatterns :
         /\ input = [i \in 0..(ccfg.in_ch * ccfg.in_h * ccfg.in_w - 1) |-> ConvInVal(pat, i)]
         /\ cweights = [i \in 0..(ccfg.out_ch * ccfg.in_ch * CKK - 1) |-> ConvWVal(pat, i)]
    /\ output = [a \in 0..(COutSize - 1) |-> 0]
    \* static buffers: zero at the first call, or left over from an earlier call
    /\ \E stale \in {0, ONE} :
         weight_buf = [j \in 0..(PARALLEL_OUT_CH * PARALLEL_IN_CH * 9 - 1) |-> stale]
    /\ acc_buf = [oc \in 0..(PARALLEL_OUT_CH - 1) |-> 0]
    /\ stack_junk \in (IF ccfg.kernel < 3 THEN JunkVals ELSE {0})
    /\ cpc = "C_ENTRY"
    /\ oc_tile = 0 /\ ic_tile = 0 /\ c_oh = 0 /\ c_ow = 0
    /\ cobs = [written |-> {}, junk_used |-> FALSE, in_bad |-> FALSE]

ConvEntry ==
    /\ UNCHANGED <<topvars, opvars, drvvars>>
    /\ cpc = "C_ENTRY"
    /\ oc_tile' = 0
    /\ cpc' = "C_OC_TILE"
    /\ UNCHANGED <<ccfg, input, output, cweights, weight_buf, acc_buf,
                   ic_tile, c_oh, c_ow, stack_junk, cobs>>

\* for (oc_tile = 0; oc_tile < out_ch; oc_tile += PARALLEL_OUT_CH)
ConvOcTile ==
    /\ UNCHANGED <<topvars, opvars, drvvars>>
    /\ cpc = "C_OC_TILE"
    /\ IF oc_tile < ccfg.out_ch
       THEN /\ ic_tile' = 0
            /\ cpc' = "C_IC_TILE"
       ELSE /\ cpc' = "C_RETURN"
            /\ UNCHANGED ic_tile
    /\ UNCHANGED <<ccfg, input, output, cweights, weight_buf, acc_buf,
                   oc_tile, c_oh, c_ow, stack_junk, cobs>>

\* for (ic_tile = 0; ic_tile < in_ch; ic_tile += PARALLEL_IN_CH)
ConvIcTile ==
    /\ UNCHANGED <<topvars, opvars, drvvars>>
    /\ cpc = "C_IC_TILE"
    /\ IF ic_tile < ccfg.in_ch
       THEN /\ cpc' = "C_LOAD_WEIGHTS"
            /\ UNCHANGED oc_tile
       ELSE /\ oc_tile' = oc_tile + PARALLEL_OUT_CH
            /\ cpc' = "C_OC_TILE"
    /\ UNCHANGED <<ccfg, input, output, cweights, weight_buf, acc_buf,
                   ic_tile, c_oh, c_ow, stack_junk, cobs>>

ConvLoadWeights ==
    /\ UNCHANGED <<topvars, opvars, drvvars>>
    /\ cpc = "C_LOAD_WEIGHTS"
    /\ weight_buf' = WeightBufAfterLoad
    /\ c_oh' = 0 /\ c_ow' = 0
    /\ cpc' = "C_PIXEL"
    /\ UNCHANGED <<ccfg, input, output, cweights, acc_buf,
                   oc_tile, ic_tile, stack_junk, cobs>>

\* one iteration of ROW_LOOP/COL_LOOP, or the end of the loops (ic_tile += 8)
ConvPixel ==
    /\ UNCHANGED <<topvars, opvars, drvvars>>
    /\ cpc = "C_PIXEL"
    /\ IF c_oh < out_h /\ out_w > 0
       THEN /\ acc_buf' = AccBufAfterPixel(c_oh, c_ow)
            /\ output' = [a \in DOMAIN output |->
                            IF LastIcTile /\ (\E oc \in OcInTile : COutIdx(oc, c_oh, c_ow) = a)
                            THEN Narrow(acc_buf'[CHOOSE oc \in OcInTile :
                                                    COutIdx(oc, c_oh, c_ow) = a])
                            ELSE output[a]]
            /\ cobs' = [cobs EXCEPT
                          !.written = IF LastIcTile
                                      THEN @ \cup { COutIdx(oc, c_oh, c_ow) : oc \in OcInTile }
                                      ELSE @,
                          !.junk_used = @ \/ ccfg.kernel < 3,
                          !.in_bad = @ \/ WindowReadsOutside(c_oh, c_ow)]
            /\ IF c_ow + 1 < out_w
               THEN c_ow' = c_ow + 1 /\ UNCHANGED c_oh
               ELSE c_ow' = 0 /\ c_oh' = c_oh + 1
            /\ UNCHANGED <<cpc, ic_tile>>
       ELSE /\ ic_tile' = ic_tile + PARALLEL_IN_CH
            /\ cpc' = "C_IC_TILE"
            /\ UNCHANGED <<output, acc_buf, c_oh, c_ow, cobs>>
    /\ UNCHANGED <<ccfg, input, cweights, weight_buf, oc_tile, stack_junk>>

ConvNext ==
    \/ ConvEntry
    \/ ConvOcTile
    \/ ConvIcTile
    \/ ConvLoadWeights
    \/ ConvPixel

SpecConv == ConvInit /\ [][ConvNext]_vars

\* ---- reference: all input channels summed in one input-channel tile ----
CRefInput(ic, ih, iw) ==
    IF 0 <= ih /\ ih < ccfg.in_h /\ 0 <= iw /\ iw < ccfg.in_w
    THEN input[ic * ccfg.in_h * ccfg.in_w + ih * ccfg.in_w + iw] ELSE 0
RECURSIVE CRefPartial(_, _, _, _, _)
CRefPartial(oc, ic, oh, ow, n) ==
    IF n = 0 THEN 0
    ELSE LET kh == (n - 1) \div ccfg.kernel
             kw == (n - 1) % ccfg.kernel
         IN  SatAdd(CRefPartial(oc, ic, oh, ow, n - 1),
                    Mul(CRefInput(ic, oh * ccfg.stride + kh - ccfg.pad,
                                  ow * ccfg.stride + kw - ccfg.pad),
                        cweights[oc * ccfg.in_ch * CKK + ic * CKK + (n - 1)]))
RECURSIVE CRefAcc(_, _, _, _)
CRefAcc(oc, oh, ow, n) ==
    IF n = 0 THEN 0
    ELSE SatAdd(CRefAcc(oc, oh, ow, n - 1), CRefPartial(oc, n - 1, oh, ow, CKK))
CRefOutput(a) ==
    Narrow(CRefAcc(a \div (out_h * out_w), (a % (out_h * out_w)) \div out_w,
                   a % out_w, ccfg.in_ch))

\* ---- conv2d_ref (tb_cnn_accel.cpp 56-82): the sum of all products of one
\* output element, without intermediate saturation.  A product is split at
\* the Q8.8 position so that the sums stay within 32 bits.
RefProd(oc, ico, oh, ow, kh, kw) ==
    Mul(CRefInput(ico, oh * ccfg.stride + kh - ccfg.pad, ow * ccfg.stride + kw - ccfg.pad),
        cweights[oc * ccfg.in_ch * CKK + ico * CKK + kh * ccfg.kernel + kw])
RECURSIVE RefSumHi(_, _, _, _)
RefSumHi(oc, oh, ow, n) ==
    IF n = 0 THEN 0
    ELSE RefSumHi(oc, oh, ow, n - 1)
           + (RefProd(oc, (n - 1) \div CKK, oh, ow, ((n - 1) % CKK) \div ccfg.kernel,
                      (n - 1) % ccfg.kernel) \div DATA_FRAC)
RECURSIVE RefSumLo(_, _, _, _)
RefSumLo(oc, oh, ow, n) ==
    IF n = 0 THEN 0
    ELSE RefSumLo(oc, oh, ow, n - 1)
           + (RefProd(oc, (n - 1) \div CKK, oh, ow, ((n - 1) % CKK) \div ccfg.kernel,
                      (n - 1) % ccfg.kernel) % DATA_FRAC)
\* the sum narrowed to data_t: round to nearest (half up), saturate
conv2d_ref(a) ==
    LET oc == a \div (out_h * out_w)
        oh == (a % (out_h * out_w)) \div out_w
        ow == a % out_w
        hi == RefSumHi(oc, oh, ow, ccfg.in_ch * CKK)
        lo == RefSumLo(oc, oh, ow, ccfg.in_ch * CKK)
    IN  SatData(hi + ((lo + (DATA_FRAC \div 2)) \div DATA_FRAC))
\* the saturating accumulation of element a narrows to another value than the exact sum
SaturationChangesResult(a) == Narrow(CRefAcc(a \div (out_h * out_w),
                                     (a % (out_h * out_w)) \div out_w,
                                     a % out_w, ccfg.in_ch)) # conv2d_ref(a)

\* C2: accumulate-before-finalize in conv2d_hw -- when in_ch is larger than
\* PARALLEL_IN_CH (N > 1 input-channel tiles), every output element written
\* equals the value obtained when all input channels are summed in a single
\* input-channel tile.  Stated for the 3x3 kernel, where every window and
\* weight entry used by the MAC is loaded by this call.
C2_ConvAccumulateBeforeFinalize ==
    ccfg.in_ch > PARALLEL_IN_CH /\ ccfg.kernel = MAX_KERNEL_SIZE =>
        \A a \in cobs.written : output[a] = CRefOutput(a)
\* the same with a single input-channel tile (in_ch <= PARALLEL_IN_CH)
ConvSingleTileMatches ==
    ccfg.in_ch <= PARALLEL_IN_CH /\ ccfg.kernel = MAX_KERNEL_SIZE =>
        \A a \in cobs.written : output[a] = CRefOutput(a)

(***************************************************************************)
(* Standalone operators: activation.cpp and pooling.cpp, and the fused     *)
(* normalization+activation datapath of WRITE_OUTPUT applied to one        *)
(* accumulator value.                                                      *)
(***************************************************************************)
\* ---- leaky_relu_hw (activation.cpp 15-25) ----
\* data_t >> 3 : arithmetic shift of the raw bits
ShrData3(x) == x \div 8
\* variant: the slope 0.1 instead of the shift (x * 0.1, rounded to nearest)
leaky_relu_tenth(x) == IF x > 0 THEN x ELSE (x + 5) \div 10
leaky_relu_hw(x) == IF x > 0 THEN x ELSE SatData(ShrData3(x))

\* ---- sigmoid_hw (activation.cpp 35-92) ----
\* SIGMOID_LUT as raw Q8.8 values: each literal converted to data_t (AP_RND)
SIGMOID_LUT ==
    << 0, 0, 0, 0, 0, 0, 0, 0, 0, 0, 0, 0, 0, 0, 0, 0,
       1, 1, 1, 1, 1, 1, 1, 1, 1, 1, 2, 2, 2, 2, 2, 3,
       3, 3, 4, 4, 4, 5, 5, 6, 7, 7, 8, 9, 10, 11, 12, 13,
       14, 16, 17, 19, 21, 23, 25, 28, 30, 33, 36, 39, 43, 47, 51, 55,
       60, 65, 70, 76, 82, 88, 95, 101, 109, 116, 123, 131, 139, 147, 155, 163,
       171, 179, 187, 195, 203, 210, 217, 223, 230, 236, 241, 246, 251, 256, 256, 256,
       256, 256, 256, 256, 256, 256, 256, 256, 256, 256, 256, 256, 256, 256, 256, 256,
       256, 256, 256, 256, 256, 256, 256, 256, 256, 256, 256, 256, 256, 256, 256, 256,
       256, 256, 256, 256, 256, 256, 256, 256, 256, 256, 256, 256, 256, 256, 256, 256,
       256, 256, 256, 256, 256, 256, 256, 256, 256, 256, 256, 256, 256, 256, 256, 256,
       256, 256, 256, 256, 256, 256, 256, 256, 256, 256, 256, 256, 256, 256, 256, 256,
       256, 256, 256, 256, 256, 256, 256, 256, 256, 256, 256, 256, 256, 256, 256, 256,
       256, 256, 256, 256, 256, 256, 256, 256, 256, 256, 256, 256, 256, 256, 256, 256,
       256, 256, 256, 256, 256, 256, 256, 256, 256, 256, 256, 256, 256, 256, 256, 256,
       256, 256, 256, 256, 256, 256, 256, 256, 256, 256, 256, 256, 256, 256, 256, 256,
       256, 256, 256, 256, 256, 256, 256, 256, 256, 256, 256, 256, 256, 256, 256, 256 >>

\* the generator named by the table's comment, sigmoid(i*16/256 - 8), as raw
\* Q8.8 values rounded to nearest
SigmoidQ8 ==
    << 0, 0, 0, 0, 0, 0, 0, 0, 0, 0, 0, 0, 0, 0, 0, 0,
       0, 0, 0, 0, 0, 0, 0, 0, 0, 0, 0, 0, 0, 1, 1, 1,
       1, 1, 1, 1, 1, 1, 1, 1, 1, 1, 1, 1, 1, 1, 2, 2,
       2, 2, 2, 2, 2, 2, 2, 3, 3, 3, 3, 3, 4, 4, 4, 4,
       5, 5, 5, 6, 6, 6, 7, 7, 8, 8, 8, 9, 10, 10, 11, 11,
       12, 13, 14, 15, 15, 16, 17, 18, 19, 21, 22, 23, 24, 26, 27, 29,
       31, 32, 34, 36, 38, 40, 42, 44, 47, 49, 52, 54, 57, 60, 63, 66,
       69, 72, 75, 79, 82, 86, 89, 93, 97, 100, 104, 108, 112, 116, 120, 124,
       128, 132, 136, 140, 144, 148, 152, 156, 159, 163, 167, 170, 174, 177, 181, 184,
       187, 190, 193, 196, 199, 202, 204, 207, 209, 212, 214, 216, 218, 220, 222, 224,
       225, 227, 229, 230, 232, 233, 234, 235, 237, 238, 239, 240, 241, 241, 242, 243,
       244, 245, 245, 246, 246, 247, 248, 248, 248, 249, 249, 250, 250, 250, 251, 251,
       251, 252, 252, 252, 252, 253, 253, 253, 253, 253, 254, 254, 254, 254, 254, 254,
       254, 254, 254, 255, 255, 255, 255, 255, 255, 255, 255, 255, 255, 255, 255, 255,
       255, 255, 255, 255, 256, 256, 256, 256, 256, 256, 256, 256, 256, 256, 256, 256,
       256, 256, 256, 256, 256, 256, 256, 256, 256, 256, 256, 256, 256, 256, 256, 256 >>

\* variant: no clamp of the input before the index computation
SigmoidClamp_None(x) == x
SigmoidClamp(x) == IF x < (-8) * ONE THEN (-8) * ONE
                   ELSE IF x >= 8 * ONE THEN 2032
                   ELSE x
\* ap_uint<8>((clamped + data_t(8)) * data_t(16)): integer part, low 8 bits
SigmoidIndex(x) ==
    (((SigmoidClamp(x) + 8 * ONE) * (16 * ONE)) \div (ONE * ONE)) % 256
sigmoid_hw(x) == SIGMOID_LUT[SigmoidIndex(x) + 1]

\* ---- batchnorm_relu_hw (activation.cpp 102-139) ----
\* acc_t bn_out = data[idx] * ch_scale + ch_shift
BnData(d, sc, sh) == SatAdd(Mul(d, sc), sh * DATA_FRAC)
\* result = leaky_relu_hw(data_t(bn_out))
BnReluElem(d, sc, sh) == leaky_relu_hw(Narrow(BnData(d, sc, sh)))
BnSpatial == oarg.height * oarg.width
batchnorm_relu_hw ==
    [idx \in 0..(oarg.channels * BnSpatial - 1) |->
        BnReluElem(odata[idx], oscale[idx \div BnSpatial], oshift[idx \div BnSpatial])]

\* ---- fused datapath of WRITE_OUTPUT for one accumulator value
\* (cnn_accel.cpp 232-256) ----
FusedScale == IF oarg.layer_type # 2 THEN oarg.scale ELSE ONE
FusedShift == IF oarg.layer_type # 2 THEN oarg.shift ELSE 0
FusedBn == BnOut(oarg.acc, FusedScale, FusedShift)
FusedResult == Activate(oarg.layer_type, FusedBn)

\* ---- max4_hw / maxpool2d_hw (pooling.cpp 12-72) ----
max4_hw(a, b, c, d) ==
    LET max_ab == IF a > b THEN a ELSE b
        max_cd == IF c > d THEN c ELSE d
    IN  IF max_ab > max_cd THEN max_ab ELSE max_cd
MpOutH == CDiv(oarg.in_h, 2)
MpOutW == CDiv(oarg.in_w, 2)
MpInSize == oarg.channels * oarg.in_h * oarg.in_w
\* the four read indices of output element o
MpReads(o) ==
    LET c == o \div (MpOutH * MpOutW)
        oh == (o % (MpOutH * MpOutW)) \div MpOutW
        ow == o % MpOutW
        base_idx == c * oarg.in_h * oarg.in_w
        ih == oh * 2
        iw == ow * 2
    IN  << base_idx + ih * oarg.in_w + iw,
           base_idx + ih * oarg.in_w + iw + 1,
           base_idx + (ih + 1) * oarg.in_w + iw,
           base_idx + (ih + 1) * oarg.in_w + iw + 1 >>
maxpool2d_hw ==
    [o \in 0..(oarg.channels * MpOutH * MpOutW - 1) |->
        LET r == MpReads(o)
        IN  max4_hw(RdBuf(odata, r[1]), RdBuf(odata, r[2]),
                    RdBuf(odata, r[3]), RdBuf(odata, r[4]))]
MaxpoolReadsOutside ==
    \E o \in 0..(oarg.channels * MpOutH * MpOutW - 1) :
        \E j \in 1..4 : MpReads(o)[j] \notin 0..(MpInSize - 1)

\* ---- global_avgpool_hw (pooling.cpp 79-109) ----
GapSpatial == oarg.height * oarg.width
\* data_t scale = data_t(1.0 / spatial_size): nearest Q8.8 value of 1/n
GapScale == SatData((2 * DATA_FRAC + GapSpatial) \div (2 * GapSpatial))
\* sum += input[idx] over [lo, hi) of channel c; state is <<sum, overflowed>>
RECURSIVE GapSum(_, _, _, _)
GapSum(st, c, lo, hi) ==
    IF hi - lo = 0 THEN st
    ELSE IF hi - lo = 1
         THEN LET v == odata[c * GapSpatial + lo] * DATA_FRAC
              IN  <<SatAdd(st[1], v), st[2] \/ AddOverflows(st[1], v)>>
         ELSE LET mid == (lo + hi) \div 2
                  left == GapSum(st, c, lo, mid)
              IN  IF left[1] >= ACC_MIN THEN GapSum(left, c, mid, hi) ELSE left
\* data_t(sum * scale): the exact product (24 fraction bits) rounded to 8
\* fraction bits (AP_RND) and saturated; computed in 16-bit limbs
GapNarrow(sum, scale) ==
    LET sh == sum \div 65536
        sl == sum % 65536
    IN  SatData(sh * scale + ((sl * scale + 32768) \div 65536))
global_avgpool_hw ==
    [c \in 0..(oarg.channels - 1) |->
        GapNarrow(GapSum(<<0, FALSE>>, c, 0, GapSpatial)[1], GapScale)]
GapOverflows ==
    \E c \in 0..(oarg.channels - 1) : GapSum(<<0, FALSE>>, c, 0, GapSpatial)[2]

\* ---- inputs explored ----
\* accumulator values of the fused datapath: the corners of acc_t, values
\* around zero and around the ends of the narrow range, and a spread
FusedAccs ==
    {ACC_MIN, ACC_MAX, 0, 1, -1, 100, -100, -300, 127, 128, -128, -129,
     65536, -65536, DATA_MAX * DATA_FRAC, DATA_MAX * DATA_FRAC + 128,
     DATA_MIN * DATA_FRAC, DATA_MIN * DATA_FRAC - 129,
     8 * DATA_MIN * DATA_FRAC, 8 * DATA_MIN * DATA_FRAC - 2048}
    \cup { (k * 7919 - 40000) * 64 : k \in 0..(4 * MaxDim) }
FusedScales == {ONE, 0, 64, DATA_MAX, DATA_MIN}
FusedShifts == {0, -16, DATA_MAX}
\* constant input values of global_avgpool_hw
GapVals == {ONE, 3, -77, 100 * ONE, DATA_MAX, DATA_MIN}
\* height x width beyond the small sizes: more than 256 and more than 512 elements
GapLargeDims == {<<17, 17>>, <<23, 23>>}

OpsCall ==
    /\ opc = "O_CALL" /\ oresult = << >>
    /\ oobs = [rd_bad |-> FALSE, sum_ovf |-> FALSE, data_in |-> odata]

OpsInit ==
    /\ TopIdle /\ ConvIdle /\ DrvIdle
    /\ \/ /\ op \in {"leaky_relu_hw", "sigmoid_hw"}
          /\ oarg \in [x : DATA_MIN..DATA_MAX]
          /\ odata = << >> /\ oscale = << >> /\ oshift = << >>
       \/ /\ op = "fused_stage"
          /\ oarg \in [layer_type : 0..2, acc : FusedAccs,
                       scale : FusedScales, shift : FusedShifts]
          /\ odata = << >> /\ oscale = << >> /\ oshift = << >>
       \/ /\ op = "batchnorm_relu_hw"
          /\ oarg \in [channels : 1..2, height : 1..MaxDim, width : 1..MaxDim]
          /\ \E seed \in 0..MaxSeed :
               /\ odata = [i \in 0..(oarg.channels * oarg.height * oarg.width - 1)
                              |-> InVal(seed, i)]
               /\ oscale = [c \in 0..(oarg.channels - 1) |-> ScaleVal(seed, c)]
               /\ oshift = [c \in 0..(oarg.channels - 1) |-> ShiftVal(seed, c)]
       \/ /\ op = "maxpool2d_hw"
          /\ oarg \in [channels : 1..2, in_h : 1..(MaxDim + 2), in_w : 1..(MaxDim + 2)]
          /\ \E seed \in {0} \cup 3..(MaxSeed + 2) :
               odata = [i \in 0..(oarg.channels * oarg.in_h * oarg.in_w - 1)
                           |-> InVal(seed, i)]
          /\ oscale = << >> /\ oshift = << >>
       \/ /\ op = "global_avgpool_hw"
          /\ \E ch \in 1..2, d \in ((1..MaxDim) \X (1..MaxDim)) \cup GapLargeDims :
               oarg = [channels |-> ch, height |-> d[1], width |-> d[2]]
          /\ \/ \E v \in GapVals :
                  odata = [i \in 0..(oarg.channels * oarg.height * oarg.width - 1) |-> v]
             \/ odata = [i \in 0..(oarg.channels * oarg.height * oarg.width - 1)
                            |-> InVal(0, i)]
          /\ oscale = << >> /\ oshift = << >>
    /\ OpsCall

\* ---- one action per operator: the call runs to its return ----
LeakyRelu ==
    /\ op = "leaky_relu_hw" /\ opc = "O_CALL"
    /\ oresult' = leaky_relu_hw(oarg.x)
    /\ opc' = "O_RET"
    /\ UNCHANGED <<op, oarg, odata, oscale, oshift, oobs>>
    /\ UNCHANGED <<topvars, convvars, drvvars>>

Sigmoid ==
    /\ op = "sigmoid_hw" /\ opc = "O_CALL"
    /\ oresult' = sigmoid_hw(oarg.x)
    /\ opc' = "O_RET"
    /\ UNCHANGED <<op, oarg, odata, oscale, oshift, oobs>>
    /\ UNCHANGED <<topvars, convvars, drvvars>>

FusedStage ==
    /\ op = "fused_stage" /\ opc = "O_CALL"
    /\ oresult' = FusedResult
    /\ opc' = "O_RET"
    /\ UNCHANGED <<op, oarg, odata, oscale, oshift, oobs>>
    /\ UNCHANGED <<topvars, convvars, drvvars>>

\* data[] is updated in place
BatchnormRelu ==
    /\ op = "batchnorm_relu_hw" /\ opc = "O_CALL"
    /\ odata' = batchnorm_relu_hw
    /\ oresult' = batchnorm_relu_hw
    /\ opc' = "O_RET"
    /\ UNCHANGED <<op, oarg, oscale, oshift, oobs>>
    /\ UNCHANGED <<topvars, convvars, drvvars>>

Maxpool2d ==
    /\ op = "maxpool2d_hw" /\ opc = "O_CALL"
    /\ oresult' = maxpool2d_hw
    /\ oobs' = [oobs EXCEPT !.rd_bad = MaxpoolReadsOutside]
    /\ opc' = "O_RET"
    /\ UNCHANGED <<op, oarg, odata, oscale, oshift>>
    /\ UNCHANGED <<topvars, convvars, drvvars>>

GlobalAvgpool ==
    /\ op = "global_avgpool_hw" /\ opc = "O_CALL"
    /\ oresult' = global_avgpool_hw
    /\ oobs' = [oobs EXCEPT !.sum_ovf = GapOverflows]
    /\ opc' = "O_RET"
    /\ UNCHANGED <<op, oarg, odata, oscale, oshift>>
    /\ UNCHANGED <<topvars, convvars, drvvars>>

OpsNext ==
    \/ LeakyRelu
    \/ Sigmoid
    \/ FusedStage
    \/ BatchnormRelu
    \/ Maxpool2d
    \/ GlobalAvgpool

SpecOps == OpsInit /\ [][OpsNext]_vars

\* C11: leaky_relu_hw(x) returns x when x > 0 and x arithmetically shifted
\* right by 3 bits (the floor of x/8 in raw units, not x * 0.1) when x <= 0;
\* the fused datapath for layer_type 0 and 1 stores narrow(bn_out) when
\* bn_out > 0 and narrow(bn_out >> 3) otherwise.
C11_LeakyReluShift ==
    /\ (op = "leaky_relu_hw" /\ opc = "O_RET" =>
          IF oarg.x > 0
          THEN oresult = oarg.x
          ELSE 8 * oresult <= oarg.x /\ oarg.x < 8 * oresult + 8)
    /\ (op = "fused_stage" /\ opc = "O_RET" /\ oarg.layer_type \in {0, 1} =>
          LET bn_out == BnOut(oarg.acc, oarg.scale, oarg.shift)
          IN  oresult = IF bn_out > 0 THEN Narrow(bn_out) ELSE Narrow(bn_out \div 8))
C11_Witness ==
    /\ op = "leaky_relu_hw" /\ opc = "O_RET"
    /\ oarg.x < 0 /\ oarg.x % 8 # 0
    /\ oresult # (oarg.x + 5) \div 10
    /\ oresult # -((-oarg.x) \div 8)

\* C12: batchnorm_relu_hw stores, for every element, narrow(bn_out) if
\* bn_out > 0 and narrow(bn_out >> 3) otherwise, where
\* bn_out = data*scale[c] + shift[c]: the result the fused stage of
\* cnn_accelerator_top stores for the same bn_out.
C12_BatchnormMatchesFused ==
    op = "batchnorm_relu_hw" /\ opc = "O_RET" =>
        \A idx \in DOMAIN odata :
            LET c == idx \div BnSpatial
                bn_out == BnData(oobs.data_in[idx], oscale[c], oshift[c])
            IN  odata[idx] = Activate(0, bn_out)

\* C13: for every layer kind the fused stage computes
\* bn_out = accumulator * scale[oc] + shift[oc] with the supplied
\* per-output-channel scale and shift; a conv_only layer (layer_type 2)
\* stores narrow(bn_out) with no activation, the other kinds store
\* narrow(bn_out) when bn_out > 0 and narrow(bn_out >> 3) otherwise.
C13_FusedBnAndConvOnly ==
    [][pc = "WRITE_OUTPUT" =>
         \A idx \in 0..(tile_size - 1) :
            LET bn_out == BnOut(RdBuf(acc_tile, idx),
                                bn_scale[AbsOc(idx)], bn_shift[AbsOc(idx)])
            IN  output_fm'[OutIdx(idx)]
                    = IF cfg.layer_type = 2 THEN Narrow(bn_out)
                      ELSE IF bn_out > 0 THEN Narrow(bn_out)
                      ELSE Narrow(Shr3(bn_out))]_vars
\* the same for the layer kinds with normalization (layer_type 0 and 1)
FusedBnNormalized ==
    [][pc = "WRITE_OUTPUT" /\ cfg.layer_type # 2 =>
         \A idx \in 0..(tile_size - 1) :
            LET bn_out == BnOut(RdBuf(acc_tile, idx),
                                bn_scale[AbsOc(idx)], bn_shift[AbsOc(idx)])
            IN  output_fm'[OutIdx(idx)]
                    = IF bn_out > 0 THEN Narrow(bn_out) ELSE Narrow(Shr3(bn_out))]_vars

(***************************************************************************)
(* Pooling: either a layer with pooling runs on the accelerator or         *)
(* maxpool2d_hw is called.                                                 *)
(***************************************************************************)
PoolInit ==
    \/ Init /\ cfg.layer_type = 1
    \/ OpsInit /\ op = "maxpool2d_hw"
PoolNext == Next \/ Maxpool2d
SpecPool == PoolInit /\ [][PoolNext]_vars

\* the largest of the four values of the 2x2 block (c, ph, pw) of tensor t
\* with h rows and w columns per channel
BlockMax(t, h, w, c, ph, pw) ==
    LET B == { t[c * h * w + (2 * ph + dy) * w + (2 * pw + dx)] :
                   dy \in 0..1, dx \in 0..1 }
    IN  CHOOSE m \in B : \A v \in B : v <= m

\* C14: maxpool2d_hw and the pooling pass of cnn_accelerator_top produce
\* floor(in_h/2) x floor(in_w/2) elements per channel, element (c, ph, pw)
\* being the largest value of the input block at rows 2ph..2ph+1, columns
\* 2pw..2pw+1; an odd trailing row or column is in no window and no read is
\* outside the input tensor.
C14_MaxPool ==
    /\ (op = "maxpool2d_hw" /\ opc = "O_RET" =>
          LET PH == oarg.in_h \div 2
              PW == oarg.in_w \div 2
          IN  /\ DOMAIN oresult = 0..(oarg.channels * PH * PW - 1)
              /\ ~oobs.rd_bad
              /\ \A c \in 0..(oarg.channels - 1), ph \in 0..(PH - 1), pw \in 0..(PW - 1) :
                    oresult[c * PH * PW + ph * PW + pw]
                        = BlockMax(odata, oarg.in_h, oarg.in_w, c, ph, pw))
    /\ (pc \in {"SET_DONE", "RETURN"} /\ cfg.layer_type = 1
            /\ out_height > 0 /\ out_width > 0 =>
          LET PH == out_height \div 2
              PW == out_width \div 2
          IN  \A c \in 0..(cfg.out_channels - 1), ph \in 0..(PH - 1), pw \in 0..(PW - 1) :
                 /\ PoolBase(c, ph, pw) >= 0
                 /\ PoolBase(c, ph, pw) + out_width + 1 < OutSize
                 /\ output_fm[c * PH * PW + ph * PW + pw]
                        = BlockMax(obs.tile_out, out_height, out_width, c, ph, pw))
C14_Witness ==
    /\ pc = "RETURN" /\ cfg.layer_type = 1 /\ cfg.out_channels = 2
    /\ out_height = 3 /\ out_width = 2
    /\ output_fm[1] # obs.tile_out[1]
    /\ output_fm[1] = BlockMax(obs.tile_out, out_height, out_width, 1, 0, 0)

\* C15: the pooling pass runs if and only if layer_type = 1 and begins only
\* after every output tile of the layer has been written; for layer_type 0
\* and 2 output_fm is not touched after the tile pass.
C15_PoolAfterAllTiles ==
    /\ [](pc = "POOL_LOOP" =>
             /\ cfg.layer_type = 1
             /\ oc_t >= oc_tiles
             /\ \A a \in DOMAIN obs.wr_cnt : obs.wr_cnt[a] = 1)
    /\ [][/\ (pc = "POOL_CHECK" => (pc' = "POOL_LOOP" <=> cfg.layer_type = 1))
          /\ (pc' = "POOL_LOOP" => pc \in {"POOL_CHECK", "POOL_LOOP"})
          /\ (pc' = "POOL_CHECK" /\ pc # "POOL_CHECK" =>
                 pc = "OC_TILE_LOOP" /\ oc_t >= oc_tiles)
          /\ (pc = "WRITE_OUTPUT" => pc' \notin {"POOL_CHECK", "POOL_LOOP"})
          /\ (AfterTilePass /\ cfg.layer_type # 1 => output_fm' = output_fm)]_vars
C15_Witness ==
    /\ pc = "POOL_LOOP" /\ pool_i = 1
    /\ oh_tiles = 2 /\ ow_tiles = 2
    /\ output_fm[0] # obs.tile_out[0]

\* C16: when pooling is requested (layer_type 1), after the run has
\* completed every element of the full-resolution map still holds the value
\* the tile pass wrote.
C16_FullResolutionKept ==
    pc = "RETURN" /\ cfg.layer_type = 1 =>
        \A a \in 0..(OutSize - 1) : output_fm[a] = obs.tile_out[a]

\* C17: sigmoid_hw clamps x to [-8, 8) before computing the index; the index
\* is (clamp(x) + 8) * 16 truncated to an integer and lies in 0..255; every
\* input <= -8 maps to index 0, every input >= 8 to index 255, and the
\* returned value is SIGMOID_LUT[index].
C17_SigmoidIndex ==
    op = "sigmoid_hw" /\ opc = "O_RET" =>
        LET x == oarg.x
            index == SigmoidIndex(x)
            clamp == Max2((-8) * ONE, Min2(x, 8 * ONE - 1))
        IN  /\ index \in 0..255
            /\ 16 * index <= clamp + 8 * ONE /\ clamp + 8 * ONE < 16 * index + 16
            /\ (x <= (-8) * ONE => index = 0)
            /\ (x >= 8 * ONE => index = 255)
            /\ oresult = SIGMOID_LUT[index + 1]
C17_Witness ==
    /\ op = "sigmoid_hw" /\ opc = "O_RET"
    /\ oarg.x = DATA_MAX
    /\ SigmoidIndex(oarg.x) = 255 /\ oresult = SIGMOID_LUT[256]

\* C18: every entry i of SIGMOID_LUT equals sigmoid(i*16/256 - 8) to within
\* Q8.8 rounding, so the value sigmoid_hw returns for x is within one unit
\* of the last place of sigmoid at the index of x; sigmoid_hw(0) is 0.5 and
\* the table is non-decreasing.
C18_LutApproximatesSigmoid ==
    /\ \A i \in 1..255 : SIGMOID_LUT[i] <= SIGMOID_LUT[i + 1]
    /\ (op = "sigmoid_hw" /\ opc = "O_RET" =>
          /\ oresult - SigmoidQ8[SigmoidIndex(oarg.x) + 1] \in -1..1
          /\ (oarg.x = 0 => oresult = ONE \div 2))
\* the part of C18 that holds: the table is non-decreasing and its two ends
\* are sigmoid(-8) and sigmoid(7.9375) within rounding
LutMonotoneWithEnds ==
    /\ \A i \in 1..255 : SIGMOID_LUT[i] <= SIGMOID_LUT[i + 1]
    /\ SIGMOID_LUT[1] - SigmoidQ8[1] \in -1..1
    /\ SIGMOID_LUT[256] - SigmoidQ8[256] \in -1..1

\* C19: for a constant input value v, every channel count and every height
\* and width >= 1 (also height*width above 256), global_avgpool_hw writes
\* output[c] equal to v within rounding of the narrow type, the sum being
\* held in the wide accumulator without loss.
C19_GlobalAvgOfConstant ==
    op = "global_avgpool_hw" /\ opc = "O_RET"
        /\ (\A i \in DOMAIN odata : odata[i] = odata[0]) =>
        /\ ~oobs.sum_ovf
        /\ \A c \in 0..(oarg.channels - 1) : oresult[c] - odata[0] \in -1..1
\* the case in which the average is exact: 1/(height*width) is a Q8.8 value
\* and the sum stays inside the accumulator
GapExactForPowersOfTwo ==
    op = "global_avgpool_hw" /\ opc = "O_RET"
        /\ (\A i \in DOMAIN odata : odata[i] = odata[0])
        /\ GapSpatial \in {1, 2, 4, 8, 16} =>
        \A c \in 0..(oarg.channels - 1) : oresult[c] = odata[0]

(***************************************************************************)
(* The ARM driver running layers on the accelerator (cnn_driver.c), with   *)
(* the block-level control register AP_CTRL of the AXI-Lite interface:     *)
(* bit 0 start, bit 1 done (latched, cleared by a read), bit 2 idle.       *)
(***************************************************************************)
\* layers a session is built from: with pooling, without, conv only, and
\* one whose computed output size is not positive
DrvCfgs ==
    { LayerCfg(1, 1, 1, 2, 2, 1, 1, 0),
      LayerCfg(0, 1, 2, 1, 1, 3, 1, 1),
      LayerCfg(2, 2, 1, 2, 1, 1, 1, 0),
      LayerCfg(0, 1, 1, 1, 1, 3, 1, 0) }

\* sizes of the tensors of layer c
InSizeOf(c) == c.in_channels * c.in_height * c.in_width
OutSizeOf(c) ==
    c.out_channels
      * Max2(CDiv(c.in_height + 2 * c.padding - c.kernel_size, c.stride) + 1, 0)
      * Max2(CDiv(c.in_width + 2 * c.padding - c.kernel_size, c.stride) + 1, 0)

\* variant: a done bit that a read does not clear
DoneAfterRead_Keep(d) == d
\* the done bit after a read of AP_CTRL ("Clear done bit by reading it")
DoneAfterRead(d) == FALSE

\* variant: an engine that never raises done
DoneAtReturn_Never == FALSE
\* bit 1 of AP_CTRL when the function returns
DoneAtReturn == TRUE

\* state of the engine as the control register and the function show it
EngineState ==
    IF pc # "IDLE" THEN "RUNNING"
    ELSE IF ap_done THEN "DONE"
    ELSE "IDLE"

\* DDR memory map (cnn_driver.h 26-30), byte addresses
DDR_INPUT_FM_ADDR == 268435456
DDR_OUTPUT_FM_ADDR == 335544320
DDR_WEIGHTS_ADDR == 402653184
DDR_BN_SCALE_ADDR == 469762048
DDR_BN_SHIFT_ADDR == 469827584

\* the five address registers
AddrRegs(i, o, w, s, h) ==
    [input |-> i, output |-> o, weights |-> w, bn_scale |-> s, bn_shift |-> h]

\* bytes of 16-bit weights and of one batch-norm vector of layer c
WeightBytes(c) == c.in_channels * c.out_channels * c.kernel_size * c.kernel_size * 2
BnBytes(c) == c.out_channels * 2

\* the driver about to run the layers of table `layers` on image `image`:
\* locals of the layer loop, the register file, and what the driver has seen
DrvStateAtEntry(layers, image) ==
    [layers |-> layers,               \* the layer table of the session
     run |-> 1,                       \* index (from 1) of the layer being run
     done_seen |-> 0,                 \* reads of this call that returned done = 1
     image_addr |-> image,
     current_input |-> image,
     current_output |-> DDR_OUTPUT_FM_ADDR,
     weight_ptr |-> DDR_WEIGHTS_ADDR,
     bn_scale_ptr |-> DDR_BN_SCALE_ADDR,
     bn_shift_ptr |-> DDR_BN_SHIFT_ADDR,
     reg_addr |-> AddrRegs(0, 0, 0, 0, 0),   \* the address registers
     idle_seen |-> FALSE,             \* a read of this call showed AP_IDLE
     cfg_regs |-> {},                 \* configuration registers written by this call
     addr_regs |-> {},                \* address registers written by this call
     started |-> FALSE,               \* AP_START written, done not yet observed
     log |-> << >>]                   \* registers at each AP_START write

\* read_reg(REG_AP_CTRL) & AP_IDLE
cnn_accel_is_ready == ap_idle

\* variant: the poll tests the start bit
cnn_accel_is_done_StartBit == ap_start
\* read_reg(REG_AP_CTRL) & AP_DONE
cnn_accel_is_done == ap_done

DrvInit ==
    /\ TopIdle /\ ConvIdle /\ OpsIdle
    /\ dpc = "D_WAIT_READY"
    /\ reg_cfg = LayerCfg(0, 0, 0, 0, 0, 1, 1, 0)
    /\ ap_start = FALSE /\ ap_done = FALSE /\ ap_idle = TRUE
    /\ \E layers \in [1..MaxRuns -> DrvCfgs] :
         dobs = DrvStateAtEntry(layers, DDR_INPUT_FM_ADDR)

\* while (!cnn_accel_is_ready()) {}
DrvWaitReady ==
    /\ dpc = "D_WAIT_READY"
    /\ ap_done' = DoneAfterRead(ap_done)
    /\ dpc' = IF cnn_accel_is_ready THEN "D_CONFIGURE" ELSE dpc
    /\ dobs' = [dobs EXCEPT !.idle_seen = ap_idle]
    /\ UNCHANGED <<reg_cfg, ap_start, ap_idle>>
    /\ UNCHANGED <<topvars, convvars, opvars>>

\* variant: cnn_accel_configure_layer without the write of REG_PADDING
ConfigRegisters_NoPadding ==
    {"layer_type", "in_channels", "out_channels", "in_height", "in_width",
     "kernel_size", "stride"}
\* the registers cnn_accel_configure_layer writes
ConfigRegisters ==
    {"layer_type", "in_channels", "out_channels", "in_height", "in_width",
     "kernel_size", "stride", "padding"}
\* the registers cnn_accel_set_addresses writes
AddressRegisters == {"input", "output", "weights", "bn_scale", "bn_shift"}

\* cnn_accel_configure_layer(cfg): eight register writes
DrvConfigure ==
    /\ dpc = "D_CONFIGURE"
    /\ reg_cfg' = [f \in DOMAIN reg_cfg |->
                     IF f \in ConfigRegisters THEN dobs.layers[dobs.run][f]
                     ELSE reg_cfg[f]]
    /\ dobs' = [dobs EXCEPT !.cfg_regs = @ \cup ConfigRegisters]
    /\ dpc' = "D_SET_ADDR"
    /\ UNCHANGED <<ap_start, ap_done, ap_idle>>
    /\ UNCHANGED <<topvars, convvars, opvars>>

\* cnn_accel_set_addresses(...): five register writes
DrvSetAddresses ==
    /\ dpc = "D_SET_ADDR"
    /\ LET regs == AddrRegs(dobs.current_input, dobs.current_output,
                            dobs.weight_ptr, dobs.bn_scale_ptr, dobs.bn_shift_ptr)
       IN  dobs' = [dobs EXCEPT !.reg_addr = [f \in DOMAIN @ |->
                                                 IF f \in AddressRegisters
                                                 THEN regs[f] ELSE @[f]],
                                !.addr_regs = @ \cup AddressRegisters]
    /\ dpc' = "D_START"
    /\ UNCHANGED <<reg_cfg, ap_start, ap_done, ap_idle>>
    /\ UNCHANGED <<topvars, convvars, opvars>>

\* cnn_accel_start(): write AP_START to AP_CTRL
DrvStart ==
    /\ dpc = "D_START"
    /\ ap_start' = TRUE
    /\ dobs' = [dobs EXCEPT !.started = TRUE,
                            !.log = Append(@, [layer |-> dobs.run, cfg |-> reg_cfg,
                                               addr |-> dobs.reg_addr,
                                               idle_seen |-> dobs.idle_seen,
                                               engine |-> EngineState])]
    /\ dpc' = "D_WAIT_DONE"
    /\ UNCHANGED <<reg_cfg, ap_done, ap_idle>>
    /\ UNCHANGED <<topvars, convvars, opvars>>

\* cnn_accel_wait_done(): one poll of while (!cnn_accel_is_done()) {}
DrvPollDone ==
    /\ dpc = "D_WAIT_DONE"
    /\ ap_done' = DoneAfterRead(ap_done)
    /\ IF cnn_accel_is_done
       THEN /\ dpc' = "D_CLEAR_READ"
            /\ dobs' = [dobs EXCEPT !.done_seen = @ + (IF ap_done THEN 1 ELSE 0),
                                    !.started = ~ap_done]
       ELSE UNCHANGED <<dpc, dobs>>
    /\ UNCHANGED <<reg_cfg, ap_start, ap_idle>>
    /\ UNCHANGED <<topvars, convvars, opvars>>

\* cnn_accel_wait_done(): the read after the loop
DrvClearRead ==
    /\ dpc = "D_CLEAR_READ"
    /\ ap_done' = DoneAfterRead(ap_done)
    /\ dobs' = [dobs EXCEPT !.done_seen = @ + (IF ap_done THEN 1 ELSE 0)]
    /\ dpc' = "D_RETURN"
    /\ UNCHANGED <<reg_cfg, ap_start, ap_idle>>
    /\ UNCHANGED <<topvars, convvars, opvars>>

\* variant: the swap without its temporary
SwapBuffers_NoTemp(in_addr, out_addr) == <<out_addr, out_addr>>
\* temp = input; input = output; output = temp: the new <<input, output>>
SwapBuffers(in_addr, out_addr) == <<out_addr, in_addr>>

\* the tail of the layer loop after cnn_accel_run_layer has returned: advance
\* the weight and batch-norm pointers, swap the buffers, i++
DrvNextLayer ==
    /\ dpc = "D_RETURN"
    /\ LET c == dobs.layers[dobs.run]
       IN  dobs' = [dobs EXCEPT !.run = @ + 1, !.done_seen = 0,
                                !.weight_ptr = @ + WeightBytes(c),
                                !.bn_scale_ptr = @ + BnBytes(c),
                                !.bn_shift_ptr = @ + BnBytes(c),
                                !.current_input =
                                    SwapBuffers(dobs.current_input, dobs.current_output)[1],
                                !.current_output =
                                    SwapBuffers(dobs.current_input, dobs.current_output)[2],
                                !.idle_seen = FALSE,
                                !.cfg_regs = {}, !.addr_regs = {}]
    /\ dpc' = IF dobs.run < Len(dobs.layers) THEN "D_WAIT_READY" ELSE "D_FINISHED"
    /\ UNCHANGED <<reg_cfg, ap_start, ap_done, ap_idle>>
    /\ UNCHANGED <<topvars, convvars, opvars>>

\* the engine takes the start bit: cnn_accelerator_top is entered with the
\* register values as arguments; the static tile buffers keep their content
HwStart ==
    /\ pc = "IDLE" /\ ap_start
    /\ ap_idle' = FALSE
    /\ cfg' = reg_cfg
    /\ input_fm' = [i \in 0..(InSizeOf(reg_cfg) - 1) |-> InVal(0, i)]
    /\ weights' = [i \in 0..(reg_cfg.out_channels * reg_cfg.in_channels
                               * reg_cfg.kernel_size * reg_cfg.kernel_size - 1)
                      |-> WVal(0, i)]
    /\ bn_scale' = [c \in 0..(reg_cfg.out_channels - 1) |-> ScaleVal(0, c)]
    /\ bn_shift' = [c \in 0..(reg_cfg.out_channels - 1) |-> ShiftVal(0, c)]
    /\ output_fm' = [a \in 0..(OutSizeOf(reg_cfg) - 1) |-> 0]
    /\ obs' = [ObsInit EXCEPT !.wr_cnt = [a \in 0..(OutSizeOf(reg_cfg) - 1) |-> 0]]
    /\ oc_t' = 0 /\ oh_t' = 0 /\ ow_t' = 0 /\ ic_t' = 0
    /\ pool_c' = 0 /\ pool_i' = 0
    /\ pc' = "ENTRY"
    /\ UNCHANGED <<status, input_tile, weight_tile, acc_tile>>
    /\ UNCHANGED <<dpc, reg_cfg, ap_start, ap_done, dobs>>
    /\ UNCHANGED <<convvars, opvars>>

\* the function returns: done is latched, the engine is idle, start is cleared
HwDone ==
    /\ pc = "RETURN"
    /\ pc' = "IDLE"
    /\ ap_done' = DoneAtReturn /\ ap_idle' = TRUE /\ ap_start' = FALSE
    /\ UNCHANGED <<cfg, input_fm, output_fm, weights, bn_scale, bn_shift, status,
                   input_tile, weight_tile, acc_tile, oc_t, oh_t, ow_t, ic_t,
                   pool_c, pool_i, obs>>
    /\ UNCHANGED <<dpc, reg_cfg, dobs>>
    /\ UNCHANGED <<convvars, opvars>>

\* the calls of the driver
DrvSteps ==
    \/ DrvWaitReady
    \/ DrvConfigure
    \/ DrvSetAddresses
    \/ DrvStart
    \/ DrvPollDone
    \/ DrvClearRead
    \/ DrvNextLayer

DrvNext ==
    \/ DrvSteps
    \/ HwStart
    \/ Next
    \/ HwDone

SpecDrv == DrvInit /\ [][DrvNext]_vars

(***************************************************************************)
(* The two layer sequences of the software: cnn_accel_run_yolo_lite over   *)
(* yolo_lite_layers and the layer loop of the FPGA main over fpga_layers.  *)
(* The tensors of these layers are 224 x 224 and larger than any bound of  *)
(* the engine model above, so here the engine is the control interface     *)
(* only: it takes the start bit, is busy, and raises done.                 *)
(***************************************************************************)
\* variant: layer 5 declared with the 7 x 7 input of a pooled layer 4
yolo_lite_layers_Pooled4 ==
    << LayerCfg(1, 3, 16, 224, 224, 3, 1, 1),
       LayerCfg(1, 16, 32, 112, 112, 3, 1, 1),
       LayerCfg(1, 32, 64, 56, 56, 3, 1, 1),
       LayerCfg(1, 64, 128, 28, 28, 3, 1, 1),
       LayerCfg(0, 128, 256, 14, 14, 3, 1, 1),
       LayerCfg(1, 256, 512, 7, 7, 3, 1, 1),
       LayerCfg(2, 512, 125, 7, 7, 1, 1, 0) >>
yolo_lite_layers ==
    << LayerCfg(1, 3, 16, 224, 224, 3, 1, 1),
       LayerCfg(1, 16, 32, 112, 112, 3, 1, 1),
       LayerCfg(1, 32, 64, 56, 56, 3, 1, 1),
       LayerCfg(1, 64, 128, 28, 28, 3, 1, 1),
       LayerCfg(0, 128, 256, 14, 14, 3, 1, 1),
       LayerCfg(1, 256, 512, 14, 14, 3, 1, 1),
       LayerCfg(2, 512, 125, 7, 7, 1, 1, 0) >>

fpga_layers ==
    << LayerCfg(1, 3, 16, 224, 224, 3, 1, 1),
       LayerCfg(1, 16, 32, 112, 112, 3, 1, 1),
       LayerCfg(1, 32, 64, 56, 56, 3, 1, 1),
       LayerCfg(1, 64, 128, 28, 28, 3, 1, 1),
       LayerCfg(1, 128, 256, 14, 14, 3, 1, 1),
       LayerCfg(0, 256, 512, 7, 7, 3, 1, 1),
       LayerCfg(2, 512, 24, 7, 7, 1, 1, 0) >>

\* image addresses passed to cnn_accel_run_yolo_lite: the input buffer, a
\* separate image buffer, and the output buffer itself
ImageAddrs == {DDR_INPUT_FM_ADDR, DDR_INPUT_FM_ADDR + 4096, DDR_OUTPUT_FM_ADDR}

\* output size of layer c along a dimension of input size d: the convolution
\* size of cnn_accelerator_top, halved by the pooling pass for layer_type 1
LayerOutDim(c, d) ==
    LET conv == CDiv(d + 2 * c.padding - c.kernel_size, c.stride) + 1
    IN  IF c.layer_type = 1 THEN CDiv(conv, 2) ELSE conv

NetInit ==
    /\ TopIdle /\ ConvIdle /\ OpsIdle
    /\ dpc = "D_WAIT_READY"
    /\ reg_cfg = LayerCfg(0, 0, 0, 0, 0, 1, 1, 0)
    /\ ap_start = FALSE /\ ap_done = FALSE /\ ap_idle = TRUE
    /\ \/ dobs = DrvStateAtEntry(fpga_layers, DDR_INPUT_FM_ADDR)
       \/ \E image \in ImageAddrs : dobs = DrvStateAtEntry(yolo_lite_layers, image)

\* the engine takes the start bit and runs the layer of the registers
NetHwStart ==
    /\ pc = "IDLE" /\ ap_start
    /\ pc' = "BUSY"
    /\ ap_idle' = FALSE
    /\ cfg' = reg_cfg
    /\ status' = 1
    /\ UNCHANGED <<input_fm, output_fm, weights, bn_scale, bn_shift,
                   input_tile, weight_tile, acc_tile, oc_t, oh_t, ow_t, ic_t,
                   pool_c, pool_i, obs>>
    /\ UNCHANGED <<dpc, reg_cfg, ap_start, ap_done, dobs>>
    /\ UNCHANGED <<convvars, opvars>>

\* the layer is complete: status 0, done latched, idle, start cleared
NetHwDone ==
    /\ pc = "BUSY"
    /\ pc' = "IDLE"
    /\ status' = 0
    /\ ap_done' = DoneAtReturn /\ ap_idle' = TRUE /\ ap_start' = FALSE
    /\ UNCHANGED <<cfg, input_fm, output_fm, weights, bn_scale, bn_shift,
                   input_tile, weight_tile, acc_tile, oc_t, oh_t, ow_t, ic_t,
                   pool_c, pool_i, obs>>
    /\ UNCHANGED <<dpc, reg_cfg, dobs>>
    /\ UNCHANGED <<convvars, opvars>>

NetNext ==
    \/ DrvSteps
    \/ NetHwStart
    \/ NetHwDone

SpecNet == NetInit /\ [][NetNext]_vars

\* the processor keeps executing the driver, and the engine: takes a start
\* that is pending, and completes the layer it runs
SpecNetLive ==
    /\ NetInit /\ [][NetNext]_vars
    /\ WF_vars(DrvSteps) /\ WF_vars(NetHwStart) /\ WF_vars(NetHwDone)

\* the pooling pass of the current run has gone through every window
PoolPassComplete ==
    pool_c >= cfg.out_channels \/ pool_height <= 0 \/ pool_width <= 0

\* C20: every run takes the engine IDLE -> RUNNING -> DONE -> IDLE in that
\* order; status becomes 1 before the first tile is processed, stays 1 during
\* the tile pass and the pooling pass, and becomes 0 only after every output
\* address has been written and the pooling pass, if any, has completed; the
\* driver reads done = 1 exactly once per run, and that read is the step
\* that takes the engine from DONE back to IDLE.
C20_EngineStateMachine ==
    /\ [](/\ (pc \notin {"IDLE", "ENTRY", "RETURN"} => status = 1)
          /\ (pc = "ENTRY" => \A a \in DOMAIN obs.wr_cnt : obs.wr_cnt[a] = 0)
          /\ (dpc = "D_WAIT_READY" => EngineState = "IDLE")
          /\ (dpc \in {"D_CLEAR_READ", "D_RETURN"} =>
                 EngineState = "IDLE" /\ dobs.done_seen = 1)
          /\ (EngineState # "IDLE" => dobs.done_seen = 0))
    /\ [][/\ (EngineState' # EngineState =>
                 <<EngineState, EngineState'>> \in
                     { <<"IDLE", "RUNNING">>, <<"RUNNING", "DONE">>,
                       <<"DONE", "IDLE">> })
          /\ (status' # status /\ status' = 1 => pc = "ENTRY")
          /\ (status = 1 /\ status' = 0 =>
                 /\ pc = "SET_DONE"
                 /\ \A a \in DOMAIN obs.wr_cnt : obs.wr_cnt[a] = 1
                 /\ (cfg.layer_type = 1 => PoolPassComplete))
          /\ (dobs'.done_seen > dobs.done_seen =>
                 /\ dobs'.done_seen = 1
                 /\ EngineState = "DONE" /\ EngineState' = "IDLE")
          /\ (EngineState = "DONE" /\ EngineState' = "IDLE" =>
                 dobs'.done_seen = dobs.done_seen + 1)]_vars
C20_Witness ==
    /\ dpc = "D_RETURN" /\ dobs.run = 2 /\ dobs.done_seen = 1
    /\ EngineState = "IDLE" /\ status = 0
    /\ cfg.layer_type = 1 /\ dobs.layers[1].layer_type = 0
    /\ output_fm # obs.tile_out

\* C21: only one layer runs at a time.  The driver writes AP_START only after
\* a read of AP_CTRL in the same call showed AP_IDLE and while the engine is
\* not RUNNING; it writes the configuration and address registers of a layer
\* and starts it only after done has been observed for every layer started
\* before; the layer the engine runs is the one the driver is waiting for.
C21_OneLayerAtATime ==
    /\ [](/\ (EngineState = "RUNNING" =>
                 /\ dobs.started /\ dpc = "D_WAIT_DONE"
                 /\ Len(dobs.log) = dobs.run
                 /\ cfg = dobs.layers[dobs.run])
          /\ \A k \in 1..Len(dobs.log) :
                 /\ dobs.log[k].idle_seen
                 /\ dobs.log[k].engine = "IDLE"
                 /\ dobs.log[k].layer = k
                 /\ dobs.log[k].cfg = dobs.layers[k])
    /\ [][/\ (\/ dobs'.cfg_regs \notin {dobs.cfg_regs, {}}
              \/ dobs'.addr_regs \notin {dobs.addr_regs, {}}
              \/ Len(dobs'.log) > Len(dobs.log) =>
                 /\ ~dobs.started
                 /\ EngineState = "IDLE"
                 /\ Len(dobs.log) = dobs.run - 1)
          /\ (dobs'.run > dobs.run =>
                 dobs.done_seen = 1 /\ Len(dobs.log) = dobs.run)]_vars
C21_Witness ==
    /\ Len(dobs.layers) = 7 /\ dobs.run = 7
    /\ EngineState = "RUNNING" /\ cfg = dobs.layers[7]
    /\ Len(dobs.log) = 7

(***************************************************************************)
(* Termination of cnn_accelerator_top.  The function is sequential code    *)
(* that the engine executes without being descheduled, so a step that is   *)
(* enabled is eventually taken.  Control flow does not depend on the data, *)
(* so one tensor pattern per configuration is enough; configurations with  *)
(* a dimension of 0 are added.                                             *)
(***************************************************************************)
ZeroDimCfgs ==
    { LayerCfg(1, 0, 1, 2, 2, 3, 1, 1),
      LayerCfg(0, 1, 0, 2, 2, 3, 1, 1),
      LayerCfg(1, 1, 1, 0, 2, 3, 2, 0),
      LayerCfg(1, 1, 2, 2, 0, 1, 1, 0),
      LayerCfg(2, 0, 0, 0, 0, 3, 1, 0) }

LiveInit ==
    \E c \in SmallCfgs \cup TiledCfgs \cup ZeroDimCfgs : EntryOf(c, 0)

\* weak fairness of COMPUTE_TILE and of WRITE_OUTPUT, written out with the
\* state predicate that ENABLED <<A>>_vars equals (each changes pc)
WeakFairComputeTile == []<>(pc # "COMPUTE_TILE") \/ []<><<ComputeTile>>_vars
WeakFairWriteOutput == []<>(pc # "WRITE_OUTPUT") \/ []<><<WriteOutput>>_vars

\* every step of the function is eventually executed
Fairness ==
    /\ WF_vars(Start) /\ WF_vars(OcTileLoop) /\ WF_vars(OhTileLoop)
    /\ WF_vars(OwTileLoop) /\ WF_vars(InitAcc) /\ WF_vars(IcTileLoop)
    /\ WF_vars(LoadInput) /\ WF_vars(LoadWeights) /\ WeakFairComputeTile
    /\ WeakFairWriteOutput /\ WF_vars(PoolCheck) /\ WF_vars(PoolStep)
    /\ WF_vars(SetDone)

SpecLive == LiveInit /\ [][Next]_vars /\ Fairness

\* C22: a started run always proceeds to completion: once status is 1 it is
\* eventually 0, the function returns only through the final *status = 0, and
\* from the first status write on every step stays inside the function body.
C22_RunCompletes ==
    /\ (status = 1 ~> (status = 0 /\ pc = "RETURN"))
    /\ (pc = "ENTRY" ~> pc = "RETURN")
    /\ [][/\ (pc' = "RETURN" => pc = "SET_DONE" /\ status' = 0)
          /\ (status = 1 /\ status' # 1 => pc = "SET_DONE")
          /\ (pc = "RETURN" => pc' = "RETURN")]_vars
C22_Witness ==
    /\ pc = "RETURN" /\ status = 0
    /\ cfg.stride = 2 /\ ic_tiles = 2 /\ OutSize > TILE_H
    /\ \A a \in DOMAIN obs.wr_cnt : obs.wr_cnt[a] = 1

\* C23: conv2d_hw equals the reference direct convolution for kernel 3, any
\* out_ch, in_ch at most PARALLEL_IN_CH, stride 1 or 2 and pad 0 or 1: the
\* call writes every element of the out_ch x out_h x out_w output, and every
\* element written is the narrowed sum of all its products as conv2d_ref
\* computes it.
C23_ConvEqualsReference ==
    ccfg.kernel = MAX_KERNEL_SIZE /\ ccfg.in_ch <= PARALLEL_IN_CH =>
        /\ \A a \in cobs.written : a \in DOMAIN output /\ output[a] = conv2d_ref(a)
        /\ (cpc = "C_RETURN" => cobs.written = 0..(COutSize - 1))
\* the same for the elements whose accumulation stays within acc_t
ConvEqualsReferenceInRange ==
    ccfg.kernel = MAX_KERNEL_SIZE /\ ccfg.in_ch <= PARALLEL_IN_CH =>
        /\ \A a \in cobs.written :
               a \in DOMAIN output /\ (~SaturationChangesResult(a) => output[a] = conv2d_ref(a))
        /\ (cpc = "C_RETURN" => cobs.written = 0..(COutSize - 1))

\* C24: conv2d_hw supports kernel size 1: for kernel 1 and pad 0, every
\* output element written equals the narrowed sum over the input channels of
\* input[ic, oh*stride, ow*stride] * weight[oc, ic, 0, 0]; window and
\* weight-buffer entries not loaded by this call contribute nothing.  Stated
\* for a single input-channel tile, where the accumulation itself is right.
C24_KernelOne ==
    ccfg.kernel = 1 /\ ccfg.pad = 0 /\ ccfg.in_ch <= PARALLEL_IN_CH =>
        \A a \in cobs.written : output[a] = CRefOutput(a)
\* the same when the entries not loaded are zero on one side of each product:
\* weight_buf as zero-initialised, or the window entries zero
KernelOneWithZeroLeftovers ==
    /\ ccfg.kernel = 1 /\ ccfg.pad = 0 /\ ccfg.in_ch <= PARALLEL_IN_CH
    /\ (stack_junk = 0 \/ weight_buf[WBufIdx(0, 0, 2, 2)] = 0)
    => \A a \in cobs.written : output[a] = CRefOutput(a)

\* C25: the core treats its inputs as read-only: no step of
\* cnn_accelerator_top changes input_fm, weights, bn_scale or bn_shift; the
\* only memory it writes is output_fm (in WRITE_OUTPUT and POOL_LOOP) and the
\* status register (at entry and at the end), and every output write lands
\* inside the output tensor, so it cannot reach a buffer that does not
\* overlap it.
C25_InputsReadOnly ==
    /\ [](/\ ~obs.wr_out
          /\ DOMAIN output_fm = 0..(OutSize - 1)
          /\ (pc = "POOL_LOOP" /\ pool_c < cfg.out_channels
                /\ pool_height > 0 /\ pool_width > 0 =>
                 PoolIdx(pool_c, pool_i \div pool_width, pool_i % pool_width)
                     \in DOMAIN output_fm))
    /\ [][/\ input_fm' = input_fm /\ weights' = weights
          /\ bn_scale' = bn_scale /\ bn_shift' = bn_shift
          /\ (output_fm' # output_fm => pc \in {"WRITE_OUTPUT", "POOL_LOOP"})
          /\ (status' # status => pc \in {"ENTRY", "SET_DONE"})]_vars
C25_Witness ==
    /\ pc = "RETURN" /\ status = 0 /\ cfg.layer_type = 1
    /\ cfg.out_channels = 2 /\ pool_height = 1 /\ pool_width = 1
    /\ output_fm # obs.tile_out
    /\ \E a \in DOMAIN output_fm : output_fm[a] # 0

\* C26: the layer tables chain: in the table being run, for every consecutive
\* pair of layers, in_channels of the later one equals out_channels of the
\* earlier one and its in_height and in_width equal the earlier layer's
\* output size, (in + 2*padding - kernel_size) div stride + 1, halved with
\* floor division for layer_type 1; the chain starts at 224 and ends at 7.
C26_TablesChain ==
    /\ Len(dobs.layers) = 7
    /\ dobs.layers[1].in_height = 224 /\ dobs.layers[1].in_width = 224
    /\ \A i \in 1..(Len(dobs.layers) - 1) :
          /\ dobs.layers[i + 1].in_channels = dobs.layers[i].out_channels
          /\ dobs.layers[i + 1].in_height
                = LayerOutDim(dobs.layers[i], dobs.layers[i].in_height)
          /\ dobs.layers[i + 1].in_width
                = LayerOutDim(dobs.layers[i], dobs.layers[i].in_width)
    /\ LayerOutDim(dobs.layers[7], dobs.layers[7].in_height) = 7
    /\ LayerOutDim(dobs.layers[7], dobs.layers[7].in_width) = 7
C26_Witness ==
    /\ Len(dobs.log) = 6
    /\ dobs.log[5].cfg.layer_type = 0 /\ dobs.log[5].cfg.in_height = 14
    /\ dobs.log[6].cfg.layer_type = 1 /\ dobs.log[6].cfg.in_height = 14
    /\ reg_cfg = yolo_lite_layers[6]

\* C27: within every cnn_accel_run_layer call all eight configuration
\* registers and all five address registers are written, with the values of
\* the layer, before AP_START is written; between the AP_START write and the
\* observation of AP_DONE no configuration or address register is written,
\* so the registers equal the configuration the engine runs.
C27_ConfigBeforeStart ==
    /\ [](/\ (dobs.started =>
                 /\ dobs.cfg_regs = DOMAIN reg_cfg /\ Cardinality(dobs.cfg_regs) = 8
                 /\ dobs.addr_regs = DOMAIN dobs.reg_addr
                 /\ Cardinality(dobs.addr_regs) = 5
                 /\ reg_cfg = dobs.layers[dobs.run]
                 /\ dobs.reg_addr = AddrRegs(dobs.current_input, dobs.current_output,
                                             dobs.weight_ptr, dobs.bn_scale_ptr,
                                             dobs.bn_shift_ptr))
          /\ (EngineState = "RUNNING" => cfg = reg_cfg /\ cfg = dobs.layers[dobs.run]))
    /\ [][/\ (ap_start' /\ ~ap_start =>
                 /\ dobs.cfg_regs = DOMAIN reg_cfg
                 /\ dobs.addr_regs = DOMAIN dobs.reg_addr
                 /\ dobs'.started)
          /\ (\/ reg_cfg' # reg_cfg \/ dobs'.reg_addr # dobs.reg_addr
              \/ dobs'.cfg_regs \notin {dobs.cfg_regs, {}}
              \/ dobs'.addr_regs \notin {dobs.addr_regs, {}} =>
                 ~dobs.started /\ ~ap_start /\ EngineState = "IDLE")]_vars
C27_Witness ==
    /\ dobs.run = 2 /\ dobs.started /\ EngineState = "RUNNING"
    /\ pc = "COMPUTE_TILE"
    /\ reg_cfg # dobs.layers[1] /\ reg_cfg.padding # dobs.layers[1].padding
    /\ dobs.reg_addr.input = DDR_OUTPUT_FM_ADDR

\* the four addresses POOL_LOOP reads for window (c, ph, pw)
PoolReads(c, ph, pw) ==
    { PoolBase(c, ph, pw), PoolBase(c, ph, pw) + 1,
      PoolBase(c, ph, pw) + out_width, PoolBase(c, ph, pw) + out_width + 1 }
\* the windows of POOL_LOOP in execution order, numbered from 0
PoolWindows == 0..(cfg.out_channels * pool_height * pool_width - 1)
PoolWindowIdx == pool_c * pool_height * pool_width + pool_i
WindowC(n) == n \div (pool_height * pool_width)
WindowPh(n) == (n % (pool_height * pool_width)) \div pool_width
WindowPw(n) == n % pool_width

\* C28: the in-place pooling pass is hazard-free: when a window is processed,
\* each of its four reads, and of every later window, still returns the value
\* the tile pass wrote (no earlier pooled write has landed on it), and every
\* pooled element already written, and at the end all of them, equals the
\* 2x2 maximum computed out-of-place on the full-resolution output.
C28_PoolInPlaceHazardFree ==
    pc \in {"POOL_LOOP", "SET_DONE", "RETURN"} /\ cfg.layer_type = 1
        /\ pool_height > 0 /\ pool_width > 0 =>
    \A n \in PoolWindows :
        LET c == WindowC(n)
            ph == WindowPh(n)
            pw == WindowPw(n)
        IN  IF pc = "POOL_LOOP" /\ n >= PoolWindowIdx
            THEN \A r \in PoolReads(c, ph, pw) :
                     r \in DOMAIN output_fm /\ output_fm[r] = obs.tile_out[r]
            ELSE output_fm[PoolIdx(c, ph, pw)]
                   = max4_hw(obs.tile_out[PoolBase(c, ph, pw)],
                             obs.tile_out[PoolBase(c, ph, pw) + 1],
                             obs.tile_out[PoolBase(c, ph, pw) + out_width],
                             obs.tile_out[PoolBase(c, ph, pw) + out_width + 1])
C28_Witness ==
    /\ pc = "POOL_LOOP" /\ cfg.layer_type = 1
    /\ pool_c = 1 /\ pool_i = 1 /\ pool_width = 2 /\ pool_height = 2
    /\ output_fm # obs.tile_out

\* C29: ping-pong buffers: the layers are started in table order, each once;
\* layer 0 reads the image address, every later layer reads the address the
\* layer before it wrote, input and output address of a layer differ when the
\* image address is not DDR_OUTPUT_FM_ADDR, and when the loop has ended seven
\* layers have run and the last one wrote to DDR_OUTPUT_FM_ADDR.
C29_PingPongBuffers ==
    /\ \A k \in 1..Len(dobs.log) :
          /\ dobs.log[k].layer = k
          /\ dobs.log[k].cfg = dobs.layers[k]
          /\ (k = 1 => dobs.log[k].addr.input = dobs.image_addr)
          /\ (k > 1 => dobs.log[k].addr.input = dobs.log[k - 1].addr.output)
          /\ (dobs.image_addr # DDR_OUTPUT_FM_ADDR =>
                 dobs.log[k].addr.input # dobs.log[k].addr.output)
    /\ Len(dobs.log) \in {dobs.run - 1, dobs.run}
    /\ (dpc = "D_FINISHED" =>
          /\ Len(dobs.log) = 7
          /\ dobs.log[7].addr.output = DDR_OUTPUT_FM_ADDR)
C29_Witness ==
    /\ dpc = "D_FINISHED"
    /\ dobs.image_addr \notin {DDR_INPUT_FM_ADDR, DDR_OUTPUT_FM_ADDR}
    /\ dobs.log[6].addr.input = DDR_OUTPUT_FM_ADDR
    /\ dobs.log[6].addr.output = dobs.image_addr

\* C30: completion is never missed: cnn_accel_wait_done leaves its loop only
\* on a read of AP_CTRL that shows done, and that done is the one of the
\* layer just started; the only step that clears a latched done is such a
\* poll, so no other read consumes it; and with an engine that completes,
\* every started cnn_accel_run_layer call returns and the layer loop ends.
C30_CompletionNeverMissed ==
    /\ [](dpc \in {"D_CLEAR_READ", "D_RETURN"} => dobs.done_seen >= 1 /\ ~dobs.started)
    /\ [][/\ (dpc = "D_WAIT_DONE" /\ dpc' # dpc =>
                 /\ ap_done /\ ~ap_start /\ pc = "IDLE"
                 /\ cfg = dobs.layers[dobs.run]
                 /\ dobs'.done_seen = dobs.done_seen + 1)
          /\ (ap_done /\ ~ap_done' =>
                 dpc = "D_WAIT_DONE" /\ dpc' = "D_CLEAR_READ")
          /\ (dobs.started /\ ~dobs'.started => ap_done)]_vars
    /\ (dobs.started ~> dpc = "D_RETURN")
    /\ <>(dpc = "D_FINISHED")
C30_Witness ==
    /\ dpc = "D_RETURN" /\ dobs.run = 7 /\ dobs.done_seen = 1
    /\ ~ap_done /\ ap_idle /\ Len(dobs.log) = 7
====
